---- MODULE Spec2Model ----
(***************************************************************************)
(* Model of the service runtime dispatcher                                 *)
(* (exonum/src/runtime/dispatcher/mod.rs): the runtime registry, the       *)
(* instance lookup table, the two-phase artifact deployment, service       *)
(* startup, transaction execution with deferred actions, the commit hooks, *)
(* state hash aggregation and restoring a dispatcher from a committed      *)
(* snapshot (specification Spec); and of the schema of the cryptocurrency  *)
(* service (examples/cryptocurrency-advanced/backend/src/schema.rs):       *)
(* wallets and their histories (specification WalletSpec, and SchemaSpec   *)
(* for the schema methods called with any wallet value); and of the        *)
(* configuration service (src/lib.rs): proposes of a new configuration,    *)
(* the validators' votes for them and the commit of the configuration that *)
(* gathered a majority (specification ConfigSpec); and of the execution of *)
(* a block of transactions by the testkit                                  *)
(* (test-suite/testkit/examples/timestamping/main.rs; specification        *)
(* BlockSpec).                                                             *)
(***************************************************************************)
EXTENDS Integers, Sequences, FiniteSets, TLC

(***************************************************************************)
(* Bounds of the model.                                                    *)
(***************************************************************************)
\* Longest list of deferred actions one transaction queues.
MaxActions == 2
\* Largest value next_instance_id may reach.
MaxNextId == 1026

\* Most deploy requests the runtimes buffer during one after_commit.
MaxRequests == 2

\* Most records a wallet's history reaches.
MaxHistory == 3
\* Width in bits of a balance in the model (the u64 of the program has 64).
BalanceBits == 8

\* Greatest height the blockchain reaches.
MaxHeight == 3

\* Most transactions of one block.
MaxBlock == 3

(***************************************************************************)
(* Program constants and input domains.                                    *)
(***************************************************************************)
MAX_BUILTIN_INSTANCE_ID == 1024

\* SampleRuntimes::First and SampleRuntimes::Second of the dispatcher tests.
First == 2
Second == 3
\* A runtime id no registered runtime has.
Absent == Second + 1

\* Runtime registry of the dispatcher (keys of Dispatcher::runtimes).
Runtimes == {First, Second}

Artifact(rid, name) == [runtime_id |-> rid, name |-> name]
A1 == Artifact(First, "first")
A2 == Artifact(Second, "second")
A3 == Artifact(Absent, "third")
Artifacts == {A1, A2, A3}
\* Artifacts of the registered runtimes.
HostedArtifacts == {A1, A2}
\* Key order of the persistent artifacts map.
ArtifactOrder == <<A1, A2, A3>>

InstanceNames == {"n1", "n2", "n3"}
\* Key order of the persistent service_instances map.
NameOrder == <<"n1", "n2", "n3">>

\* Identifiers a caller may hand to add_builtin_service / start_service.
GivenIds == {2, 3, MAX_BUILTIN_INSTANCE_ID}
MethodIds == {0, 1}
\* Deployment specifications (Any); 0 is Any::default().
Specs == {0}

InstanceSpec(id, name, artifact) == [id |-> id, name |-> name, artifact |-> artifact]

(***************************************************************************)
(* Behaviour of a runtime during one start_service: the results of the     *)
(* runtime's start_service, configure_service and stop_service.            *)
(***************************************************************************)
Outcome(s, c, t) == [start |-> s, cfg |-> c, stop |-> t]
AllOk == Outcome("Ok", "Ok", "Ok")
Outcomes ==
    { AllOk,
      Outcome("Err", "Ok", "Ok"),
      Outcome("Ok", "Err", "Ok"),
      Outcome("Ok", "Err", "Err"),
      Outcome("Ok", "Panic", "Ok"),
      Outcome("Ok", "Panic", "Err") }

(***************************************************************************)
(* Deferred dispatcher actions, each paired with the behaviour the runtime *)
(* shows while the action is executed.                                     *)
(***************************************************************************)
RegisterArtifactAction(a, s) ==
    [type |-> "RegisterArtifact", artifact |-> a, instance_name |-> "", spec |-> s, o |-> AllOk]
StartServiceAction(a, n, o) ==
    [type |-> "StartService", artifact |-> a, instance_name |-> n, spec |-> 0, o |-> o]
Actions ==
    { RegisterArtifactAction(A1, 0),
      StartServiceAction(A1, "n3", AllOk),
      StartServiceAction(A2, "n2", Outcome("Ok", "Err", "Ok")) }

\* The order in which the runtimes were added to the dispatcher.
RegistrationOrder == <<First, Second>>
\* Orders in which iterating the runtimes HashMap may yield its entries.
HashMapOrders == { <<First, Second>>, <<Second, First>> }

\* What a runtime hands to request_deploy_artifact, with the outcome its deployment
\* will have in the artifact's runtime.
DeployRequest(a, res) == [artifact |-> a, spec |-> 0, res |-> res]
\* The hook of the first runtime requests its artifact, which it deploys; the hook of
\* the second requests its artifact, which it is unable to deploy.
DeployRequests(rt) ==
    IF rt = First THEN { DeployRequest(A1, "Ok") }
    ELSE { DeployRequest(A2, "UnableToDeploy") }

RECURSIVE SeqsUpTo(_, _)
SeqsUpTo(S, n) ==
    IF n = 0 THEN { <<>> }
    ELSE LET shorter == SeqsUpTo(S, n - 1)
         IN  shorter \cup { Append(q, x) : q \in { p \in shorter : Len(p) = n - 1 }, x \in S }

(***************************************************************************)
(* Maps with a varying key set.                                            *)
(***************************************************************************)
EmptyMap == [k \in {} |-> 0]
Put(m, k, v) == [x \in DOMAIN m \cup {k} |-> IF x = k THEN v ELSE m[x]]

(***************************************************************************)
(* Configuration service: keys, hashes, configurations and transactions.   *)
(***************************************************************************)
\* Public keys of the nodes that were or become validators, and of one that never is.
Validators == {"V1", "V2", "V3", "V4"}
Senders == Validators \cup {"X"}
ZeroKey == "00"

\* A hash is collision free: it is modelled as its preimage under a tag.
ZeroHash == [zero |-> TRUE]
StorageValue_hash(value) == [hash_of |-> value]
\* MerkleTable::root_hash
root_hash(list) == [root_of |-> list]

\* StoredConfiguration: the fields the service reads.
StoredConfiguration(previous_cfg_hash, actual_from, validators) ==
    [previous_cfg_hash |-> previous_cfg_hash, actual_from |-> actual_from,
     validators |-> validators]

\* The configuration of the genesis block, and the candidates proposed to follow it:
\* two that follow the genesis configuration, one of them with fewer validators in
\* another order, and one that follows the first candidate.
GenesisConfig == StoredConfiguration(ZeroHash, 0, <<"V1", "V2", "V3", "V4">>)
CandidateA == StoredConfiguration(StorageValue_hash(GenesisConfig), 2, <<"V2", "V1", "V3">>)
CandidateB == StoredConfiguration(StorageValue_hash(GenesisConfig), 3,
                                  <<"V1", "V2", "V3", "V4">>)
CandidateC == StoredConfiguration(StorageValue_hash(CandidateA), MaxHeight + 1,
                                  <<"V1", "V2", "V3">>)
Candidates == {CandidateA, CandidateB, CandidateC}

\* The cfg string of a propose: the json text of a configuration in some layout, or a
\* text that is no configuration.
Json(cfg, layout) == [json |-> cfg, layout |-> layout]
NotJson == [json |-> [truncated |-> TRUE], layout |-> "compact"]
\* StoredConfiguration::try_deserialize
try_deserialize(bytes) ==
    IF bytes.json \in Candidates \cup {GenesisConfig}
    THEN [is_err |-> FALSE, value |-> bytes.json]
    ELSE [is_err |-> TRUE, value |-> bytes.json]

TxConfigPropose(from, cfg) == [from |-> from, cfg |-> cfg]
\* A vote carries the signature of its sender, who can sign the same vote anew.
TxConfigVote(from, cfg_hash, signature) ==
    [from |-> from, cfg_hash |-> cfg_hash, signature |-> signature]
ZeroSignature == "00"
Signatures == {"s1", "s2"}
ZEROVOTE == TxConfigVote(ZeroKey, ZeroHash, ZeroSignature)

\* StorageValueConfigProposeData::new
StorageValueConfigProposeData(tx_propose, votes_history_hash, num_votes) ==
    [tx_propose |-> tx_propose, votes_history_hash |-> votes_history_hash,
     num_votes |-> num_votes]

\* StorageValueConfigProposeData::set_history_hash
set_history_hash(propose_data, history_hash) ==
    [propose_data EXCEPT !.votes_history_hash = history_hash]

\* The tables of ConfigurationSchema, empty.
EmptyConfigurationSchema ==
    [propose_data_by_config_hash |-> EmptyMap, config_hash_by_ordinal |-> <<>>,
     votes_by_config_hash |-> EmptyMap]

None == [none |-> TRUE]
\* The blockchain schema after the genesis block.
GenesisSchema ==
    [configs |-> Put(EmptyMap, StorageValue_hash(GenesisConfig), GenesisConfig),
     actual |-> StorageValue_hash(GenesisConfig), following |-> None, height |-> 0]

(***************************************************************************)
(* State.                                                                  *)
(***************************************************************************)
VARIABLES
    runtime_lookup,      \* Dispatcher::runtime_lookup: instance id -> runtime id
    modified,            \* Dispatcher::modified (Some(()) = TRUE)
    deployed,            \* artifacts the runtimes hold in memory
    fork,                \* dispatcher schema (artifacts, service_instances, next_instance_id)
                         \* as the fork shows it; what an operation leaves is committed
    debug_assertions,    \* whether the build checks debug_assert! and arithmetic overflow
    halted,              \* the node stopped on a panic or failed to start
    pre,                 \* dispatcher, runtimes and schema before the operation performed last
    op,                  \* the operation performed last
    arg,                 \* its arguments
    ret,                 \* its result
    log,                 \* runtime calls, id assignments and deferred actions it made, in order
    wallets,             \* Schema::wallets: public key -> Wallet
    wallet_history,      \* SchemaImpl::wallet_history: public key -> list of transaction hashes
    config_schema,       \* ConfigurationSchema: propose_data_by_config_hash,
                         \* config_hash_by_ordinal, votes_by_config_hash
    blockchain_schema,   \* blockchain Schema: configs, actual and following configuration,
                         \* current height
    voted,               \* configuration hash -> senders whose vote put_vote was applied to
    transactions         \* core schema: hashes of the committed transactions

vars == <<runtime_lookup, modified, deployed, fork, debug_assertions, halted, pre,
          op, arg, ret, log, wallets, wallet_history, config_schema, blockchain_schema,
          voted, transactions>>
\* State of the dispatcher, of the cryptocurrency schema and of the configuration
\* service.
dispatcher_vars == <<runtime_lookup, modified, deployed, fork>>
wallet_vars == <<wallets, wallet_history>>
config_vars == <<config_schema, blockchain_schema, voted>>
core_vars == <<transactions>>

\* Dispatcher schema: artifacts, service_instances, next_instance_id.
EmptySchema ==
    [artifacts |-> EmptyMap, service_instances |-> EmptyMap,
     next_instance_id |-> MAX_BUILTIN_INSTANCE_ID]

\* The part of the state the dispatcher's methods read and write.
Machine == [runtime_lookup |-> runtime_lookup, modified |-> modified,
            deployed |-> deployed, fork |-> fork, log |-> <<>>]

Ev(f, rt, id, name) == [f |-> f, rt |-> rt, id |-> id, name |-> name]
Logged(m, e) == [m EXCEPT !.log = Append(@, e)]

Result(m, r) == [m |-> m, ret |-> r, panic |-> FALSE]
Panicked(m, r) == [m |-> m, ret |-> r, panic |-> TRUE]

(***************************************************************************)
(* Dispatcher schema (persistent state written through the fork).          *)
(***************************************************************************)
\* Schema::add_artifact: artifacts[artifact] = spec.
add_artifact(m, artifact, spec) ==
    Result([m EXCEPT !.fork.artifacts = Put(@, artifact, spec)], "Ok")

\* Schema::add_service_instance: service_instances[name] = spec.
add_service_instance(m, spec) ==
    Result([m EXCEPT !.fork.service_instances = Put(@, spec.name, spec)], "Ok")

\* Schema::assign_instance_id: the current counter value; the counter is incremented.
assign_instance_id(m) ==
    [id |-> m.fork.next_instance_id,
     m  |-> [m EXCEPT !.fork.next_instance_id = @ + 1]]

(***************************************************************************)
(* Runtime interface, as seen by the dispatcher.                           *)
(***************************************************************************)
\* Runtime::deploy_artifact, awaited: res is the outcome of the deployment.
runtime_deploy_artifact(m, artifact, res) ==
    LET m1 == Logged(m, Ev("deploy_artifact", artifact.runtime_id, -1, artifact.name))
    IN  IF res = "Ok"
        THEN Result([m1 EXCEPT !.deployed = @ \cup {artifact}], "Ok")
        ELSE Result(m1, res)

\* Runtime::start_service: fails for an artifact the runtime has not deployed.
runtime_start_service(m, spec, o) ==
    LET m1 == Logged(m, Ev("start_service", spec.artifact.runtime_id, spec.id, spec.name))
    IN  IF spec.artifact \notin m.deployed THEN Result(m1, "ArtifactNotDeployed")
        ELSE IF o.start = "Ok" THEN Result(m1, "Ok")
        ELSE Result(m1, "RuntimeError")

\* Runtime::stop_service.
runtime_stop_service(m, spec, o) ==
    LET m1 == Logged(m, Ev("stop_service", spec.artifact.runtime_id, spec.id, spec.name))
    IN  IF o.stop = "Ok" THEN Result(m1, "Ok") ELSE Result(m1, "StopError")

\* Runtime::configure_service; it may return an error or panic.
runtime_configure_service(m, spec, o) ==
    LET m1 == Logged(m, Ev("configure_service", spec.artifact.runtime_id, spec.id, spec.name))
    IN  IF o.cfg = "Ok" THEN Result(m1, "Ok")
        ELSE IF o.cfg = "Panic" THEN Panicked(m1, "Panic")
        ELSE Result(m1, "ConfigureError")

\* SampleRuntime::new arguments of the two runtimes of test_dispatcher_simple:
\* the (instance_id, method_id) each runtime answers with Ok.
SampleInstance(rt) == IF rt = First THEN 2 ELSE 3
SampleMethod(rt) == IF rt = First THEN 0 ELSE 1

\* SampleRuntime::execute
runtime_execute(m, rt, call_info) ==
    LET m1 == Logged(m, Ev("execute", rt, call_info.instance_id, ""))
    IN  IF call_info.instance_id = SampleInstance(rt) /\ call_info.method_id = SampleMethod(rt)
        THEN Result(m1, "Ok")
        ELSE Result(m1, "Foo")

\* Runtime::artifact_info(id).is_some()
runtime_artifact_info(m, id) == id \in m.deployed

(***************************************************************************)
(* Dispatcher.                                                             *)
(***************************************************************************)
\* Dispatcher::artifact_info / Dispatcher::is_deployed
is_deployed(m, id) ==
    id.runtime_id \in Runtimes /\ runtime_artifact_info(m, id)

\* deploy_artifact that also records the artifact in the schema once it is deployed.
deploy_artifact_registering(m, artifact, res) ==
    IF artifact.runtime_id \in Runtimes
    THEN LET d == runtime_deploy_artifact(m, artifact, res)
         IN  IF d.ret = "Ok" THEN add_artifact(d.m, artifact, 0) ELSE d
    ELSE Result(m, "IncorrectRuntime")

\* Dispatcher::deploy_artifact followed by wait()
deploy_artifact(m, artifact, res) ==
    IF artifact.runtime_id \in Runtimes
    THEN runtime_deploy_artifact(m, artifact, res)
    ELSE Result(m, "IncorrectRuntime")

\* register_artifact that refuses an artifact the schema already holds.
register_artifact_once(m, artifact, spec) ==
    IF debug_assertions /\ ~is_deployed(m, artifact)
    THEN Panicked(m, "AssertionFailed")
    ELSE IF artifact \in DOMAIN m.fork.artifacts
    THEN Result(m, "ArtifactAlreadyDeployed")
    ELSE add_artifact(m, artifact, spec)

\* Dispatcher::register_artifact
register_artifact(m, artifact, spec) ==
    IF debug_assertions /\ ~is_deployed(m, artifact)
    THEN Panicked(m, "AssertionFailed")
    ELSE add_artifact(m, artifact, spec)

\* deploy_and_register_artifact that registers the artifact whatever the deployment
\* returned.
deploy_and_register_artifact_unawaited(m, artifact, spec, res) ==
    LET d == deploy_artifact(m, artifact, res)
    IN  IF d.ret # "Ok" THEN Result(add_artifact(d.m, artifact, spec).m, d.ret)
        ELSE register_artifact(d.m, artifact, spec)

\* Dispatcher::deploy_and_register_artifact
deploy_and_register_artifact(m, artifact, spec, res) ==
    LET d == deploy_artifact(m, artifact, res)
    IN  IF d.ret # "Ok" THEN d ELSE register_artifact(d.m, artifact, spec)

\* configure_service without the panic boundary.
configure_service_uncaught(m, spec, o) ==
    runtime_configure_service(m, spec, o)

\* catch_panic around Runtime::configure_service
configure_service(m, spec, o) ==
    LET c == runtime_configure_service(m, spec, o)
    IN  IF c.panic THEN Result(c.m, "PanicError") ELSE c

\* register_running_service that leaves the lookup table alone.
register_running_service_skipped(m, instance) ==
    m

\* Dispatcher::register_running_service
register_running_service(m, instance) ==
    [m EXCEPT !.runtime_lookup = Put(@, instance.id, instance.artifact.runtime_id)]

\* start_service that stops the service when the runtime failed to start it.
start_service_stopping_unstarted(m, spec, o) ==
    IF spec.id \in DOMAIN m.runtime_lookup THEN Result(m, "ServiceIdExists")
    ELSE IF spec.artifact.runtime_id \notin Runtimes THEN Result(m, "IncorrectRuntime")
    ELSE LET s == runtime_start_service(m, spec, o)
         IN  IF s.ret # "Ok" THEN Result(runtime_stop_service(s.m, spec, o).m, s.ret)
             ELSE LET c == configure_service(s.m, spec, o)
                  IN  IF c.ret # "Ok"
                      THEN LET t == runtime_stop_service(c.m, spec, o)
                           IN  IF t.ret # "Ok"
                               THEN Panicked(t.m, "FatalError")
                               ELSE Result(t.m, c.ret)
                      ELSE add_service_instance(register_running_service(c.m, spec), spec)

\* start_service without the check for an identifier already in use.
start_service_unchecked_id(m, spec, o) ==
    IF spec.artifact.runtime_id \notin Runtimes THEN Result(m, "IncorrectRuntime")
    ELSE LET s == runtime_start_service(m, spec, o)
         IN  IF s.ret # "Ok" THEN s
             ELSE LET c == configure_service(s.m, spec, o)
                  IN  IF c.ret # "Ok"
                      THEN LET t == runtime_stop_service(c.m, spec, o)
                           IN  IF t.ret # "Ok"
                               THEN Panicked(t.m, "FatalError")
                               ELSE Result(t.m, c.ret)
                      ELSE add_service_instance(register_running_service(c.m, spec), spec)

\* start_service that returns the configuration error without stopping the service.
start_service_unstopped(m, spec, o) ==
    IF spec.id \in DOMAIN m.runtime_lookup THEN Result(m, "ServiceIdExists")
    ELSE IF spec.artifact.runtime_id \notin Runtimes THEN Result(m, "IncorrectRuntime")
    ELSE LET s == runtime_start_service(m, spec, o)
         IN  IF s.ret # "Ok" THEN s
             ELSE LET c == configure_service(s.m, spec, o)
                  IN  IF c.ret # "Ok" THEN c
                      ELSE add_service_instance(register_running_service(c.m, spec), spec)

\* start_service that enters the instance into the lookup table before the runtime
\* has started it.
start_service_registered_first(m, spec, o) ==
    IF spec.id \in DOMAIN m.runtime_lookup THEN Result(m, "ServiceIdExists")
    ELSE IF spec.artifact.runtime_id \notin Runtimes THEN Result(m, "IncorrectRuntime")
    ELSE LET s == runtime_start_service(register_running_service(m, spec), spec, o)
         IN  IF s.ret # "Ok" THEN s
             ELSE LET c == configure_service(s.m, spec, o)
                  IN  IF c.ret # "Ok"
                      THEN LET t == runtime_stop_service(c.m, spec, o)
                           IN  IF t.ret # "Ok"
                               THEN Panicked(t.m, "FatalError")
                               ELSE Result(t.m, c.ret)
                      ELSE add_service_instance(c.m, spec)

\* Dispatcher::start_service
start_service(m, spec, o) ==
    IF spec.id \in DOMAIN m.runtime_lookup THEN Result(m, "ServiceIdExists")
    ELSE IF spec.artifact.runtime_id \notin Runtimes THEN Result(m, "IncorrectRuntime")
    ELSE LET s == runtime_start_service(m, spec, o)
         IN  IF s.ret # "Ok" THEN s
             ELSE LET c == configure_service(s.m, spec, o)
                  IN  IF c.ret # "Ok"
                      THEN LET t == runtime_stop_service(c.m, spec, o)
                           IN  IF t.ret # "Ok"
                               THEN Panicked(t.m, "FatalError")
                               ELSE Result(t.m, c.ret)
                      ELSE add_service_instance(register_running_service(c.m, spec), spec)

\* add_builtin_service without the assertion on the identifier.
add_builtin_service_unasserted(m, spec, res, o) ==
    LET d == deploy_and_register_artifact(m, spec.artifact, 0, res)
    IN  IF d.ret # "Ok" THEN d ELSE start_service(d.m, spec, o)

\* Dispatcher::add_builtin_service
add_builtin_service(m, spec, res, o) ==
    IF ~(spec.id < MAX_BUILTIN_INSTANCE_ID) THEN Panicked(m, "AssertionFailed")
    ELSE LET d == deploy_and_register_artifact(m, spec.artifact, 0, res)
         IN  IF d.ret # "Ok" THEN d ELSE start_service(d.m, spec, o)

\* call that marks the dispatcher as modified when the service returned Ok.
call_marking_modified(m, call_info) ==
    IF call_info.instance_id \notin DOMAIN m.runtime_lookup
    THEN Result(m, "IncorrectInstanceId")
    ELSE LET runtime_id == m.runtime_lookup[call_info.instance_id]
         IN  IF runtime_id \notin Runtimes THEN Result(m, "IncorrectRuntime")
             ELSE LET r == runtime_execute(m, runtime_id, call_info)
                  IN  IF r.ret = "Ok" THEN Result([r.m EXCEPT !.modified = TRUE], "Ok") ELSE r

\* call that hands the call to the runtime the lookup table does not name.
call_other_runtime(m, call_info) ==
    IF call_info.instance_id \notin DOMAIN m.runtime_lookup
    THEN Result(m, "IncorrectInstanceId")
    ELSE LET runtime_id == m.runtime_lookup[call_info.instance_id]
         IN  IF runtime_id \notin Runtimes THEN Result(m, "IncorrectRuntime")
             ELSE runtime_execute(m, IF runtime_id = First THEN Second ELSE First, call_info)

\* Dispatcher::call
call(m, call_info) ==
    IF call_info.instance_id \notin DOMAIN m.runtime_lookup
    THEN Result(m, "IncorrectInstanceId")
    ELSE LET runtime_id == m.runtime_lookup[call_info.instance_id]
         IN  IF runtime_id \notin Runtimes THEN Result(m, "IncorrectRuntime")
             ELSE runtime_execute(m, runtime_id, call_info)

\* Action::execute that reads the counter without assign_instance_id.
Action_execute_unassigned(m, action) ==
    IF action.type = "RegisterArtifact"
    THEN register_artifact(m, action.artifact, action.spec)
    ELSE LET id == m.fork.next_instance_id
         IN  start_service(Logged(m, Ev("assign_instance_id", 0, id, "")),
                           InstanceSpec(id, action.instance_name, action.artifact),
                           action.o)

\* Action::execute
Action_execute(m, action) ==
    IF action.type = "RegisterArtifact"
    THEN register_artifact(m, action.artifact, action.spec)
    ELSE LET a == assign_instance_id(m)
         IN  start_service(Logged(a.m, Ev("assign_instance_id", 0, a.id, "")),
                           InstanceSpec(a.id, action.instance_name, action.artifact),
                           action.o)

\* Dispatcher::mark_as_modified
mark_as_modified(m) == [m EXCEPT !.modified = TRUE]

\* The loop taking the actions from the back of the queue.
RECURSIVE run_actions_lifo(_, _, _)
run_actions_lifo(m, actions, i) ==
    IF i > Len(actions) THEN Result(m, "Ok")
    ELSE LET j == Len(actions) + 1 - i
             r == Action_execute(Logged(m, Ev("action", 0, j, actions[j].type)), actions[j])
             m1 == Logged(r.m, Ev("action_result", 0, j, r.ret))
         IN  IF r.ret # "Ok" THEN [r EXCEPT !.m = m1]
             ELSE run_actions_lifo(m1, actions, i + 1)

\* The loop going on after a failed action, and returning the last result.
RECURSIVE run_actions_all(_, _, _)
run_actions_all(m, actions, i) ==
    IF i > Len(actions) THEN Result(m, "Ok")
    ELSE LET r == Action_execute(Logged(m, Ev("action", 0, i, actions[i].type)), actions[i])
             m1 == Logged(r.m, Ev("action_result", 0, i, r.ret))
         IN  IF i = Len(actions) \/ r.panic THEN [r EXCEPT !.m = m1]
             ELSE run_actions_all(m1, actions, i + 1)

\* The loop over the taken actions in Dispatcher::execute, from action i on.
RECURSIVE run_actions(_, _, _)
run_actions(m, actions, i) ==
    IF i > Len(actions) THEN Result(m, "Ok")
    ELSE LET r == Action_execute(Logged(m, Ev("action", 0, i, actions[i].type)), actions[i])
             m1 == Logged(r.m, Ev("action_result", 0, i, r.ret))
         IN  IF r.ret # "Ok" THEN [r EXCEPT !.m = m1]
             ELSE run_actions(m1, actions, i + 1)

\* Dispatcher::execute: actions is what the called service queued in the context.
execute(m, call_info, actions) ==
    LET c == call(m, call_info)
    IN  IF c.ret # "Ok" THEN c
        ELSE LET is_modified == actions # <<>>
                 r == run_actions(c.m, actions, 1)
             IN  IF r.ret # "Ok" THEN r
                 ELSE IF is_modified THEN Result(mark_as_modified(r.m), "Ok")
                 ELSE r

\* DispatcherSender::request_deploy_artifact, called by runtime rt for the k-th time
\* during its hook: the request is pushed with a callback of its own.
request_deploy_artifact(m, channel, rt, k, request) ==
    [m |-> Logged(m, Ev("request_deploy_artifact", rt, k, request.artifact.name)),
     channel |-> Append(channel, [artifact |-> request.artifact, spec |-> request.spec,
                                  res |-> request.res, and_then |-> <<rt, k>>])]

\* Runtime::after_commit of runtime rt, which requests the deployments requests[k..].
RECURSIVE runtime_after_commit(_, _, _, _, _)
runtime_after_commit(m, channel, rt, requests, k) ==
    IF k > Len(requests) THEN [m |-> m, channel |-> channel]
    ELSE LET r == request_deploy_artifact(m, channel, rt, k, requests[k])
         IN  runtime_after_commit(r.m, r.channel, rt, requests, k + 1)

\* The for_each over runtimes.values() in Dispatcher::after_commit, from order[i] on.
RECURSIVE after_commit_hooks(_, _, _, _, _)
after_commit_hooks(m, channel, order, requests, i) ==
    IF i > Len(order) THEN [m |-> m, channel |-> channel]
    ELSE LET rt == order[i]
             h == runtime_after_commit(Logged(m, Ev("after_commit", rt, i, "")),
                                       channel, rt, requests[rt], 1)
         IN  after_commit_hooks(h.m, h.channel, order, requests, i + 1)

\* DeployArtifactRequest::completed
completed(m, request) ==
    Logged(m, Ev("and_then", request.and_then[1], request.and_then[2], request.artifact.name))

\* The loop over the taken requests that gives up at the first failed deployment.
RECURSIVE deploy_requests_until_error(_, _, _)
deploy_requests_until_error(m, taken, i) ==
    IF i > Len(taken) THEN Result(m, "Ok")
    ELSE LET request == taken[i]
             m1 == Logged(m, Ev("deploy_request", request.and_then[1], request.and_then[2],
                                request.artifact.name))
             d == deploy_artifact(m1, request.artifact, request.res)
         IN  IF d.ret = "Ok" THEN deploy_requests_until_error(completed(d.m, request), taken, i + 1)
             ELSE d

\* The loop over channel.take_deploy_requests() in Dispatcher::after_commit, from
\* taken[i] on.
RECURSIVE deploy_requests(_, _, _)
deploy_requests(m, taken, i) ==
    IF i > Len(taken) THEN Result(m, "Ok")
    ELSE LET request == taken[i]
             m1 == Logged(m, Ev("deploy_request", request.and_then[1], request.and_then[2],
                                request.artifact.name))
             d == deploy_artifact(m1, request.artifact, request.res)
         IN  IF d.ret = "Ok" THEN deploy_requests(completed(d.m, request), taken, i + 1)
             ELSE deploy_requests(Logged(d.m, Ev("warn", request.and_then[1],
                                                 request.and_then[2], d.ret)), taken, i + 1)

\* Dispatcher::after_commit; order is the order in which runtimes.values() yields the
\* runtimes, requests[rt] what the hook of runtime rt requests.
after_commit(m, order, requests) ==
    LET h == after_commit_hooks(m, <<>>, order, requests, 1)
    IN  deploy_requests(h.m, h.channel, 1)

\* Hash of an index, as a function of its contents.
object_hash(contents) == [hash_of |-> contents]

\* Schema::state_hash: the hashes of the indexes of the dispatcher schema.
schema_state_hash(schema) ==
    << object_hash(schema.artifacts), object_hash(schema.service_instances) >>

\* IndexOwner, and the rank of its variants in the order of coordinates.
IndexOwner(kind, id) == [kind |-> kind, id |-> id]
OwnerRank(owner) ==
    IF owner.kind = "Dispatcher" THEN 0 ELSE IF owner.kind = "Runtime" THEN 1 ELSE 2

\* IndexCoordinates::locate: the i-th hash of an owner gets the coordinate (owner, i).
locate(owner, hashes) ==
    { [f |-> "pair", coord |-> [owner |-> owner, index |-> i - 1], hash |-> hashes[i]] :
        i \in DOMAIN hashes }

\* Lexicographic order of IndexCoordinates.
CoordLess(a, b) ==
    \/ OwnerRank(a.owner) < OwnerRank(b.owner)
    \/ /\ OwnerRank(a.owner) = OwnerRank(b.owner)
       /\ \/ a.owner.id < b.owner.id
          \/ a.owner.id = b.owner.id /\ a.index < b.index

\* HashMap::extend: a pair replaces the pair the map holds under the same coordinate.
extend(aggregator, pairs) ==
    { p \in aggregator : \A q \in pairs : q.coord # p.coord } \cup pairs

\* Runtime::state_hashes.  SampleRuntime answers StateHashAggregator::default(); a
\* runtime with state reports a hash of its own and one for every instance it runs.
runtime_state_hashes(m, rt, stateful) ==
    IF stateful
    THEN [runtime   |-> << object_hash(<<"runtime", rt>>) >>,
          instances |-> { <<iid, << object_hash(<<"service", iid>>) >> >> :
                            iid \in { i \in DOMAIN m.runtime_lookup : m.runtime_lookup[i] = rt } }]
    ELSE [runtime |-> <<>>, instances |-> {}]

\* The loop over self.runtimes in Dispatcher::state_hash, from order[i] on.
RECURSIVE state_hash_runtimes(_, _, _, _, _)
state_hash_runtimes(m, aggregator, order, stateful, i) ==
    IF i > Len(order) THEN aggregator
    ELSE LET rt == order[i]
             state == runtime_state_hashes(m, rt, stateful)
             a1 == extend(aggregator, locate(IndexOwner("Runtime", rt), state.runtime))
             a2 == extend(a1, UNION { locate(IndexOwner("Service", e[1]), e[2]) :
                                        e \in state.instances })
         IN  state_hash_runtimes(m, a2, order, stateful, i + 1)

\* The entries of a HashMap in increasing order of coordinate.
RECURSIVE Ascending(_)
Ascending(pairs) ==
    IF pairs = {} THEN <<>>
    ELSE LET least == CHOOSE p \in pairs :
                        \A q \in pairs \ {p} : CoordLess(p.coord, q.coord)
         IN  << least >> \o Ascending(pairs \ {least})

Reverse(q) == [i \in DOMAIN q |-> q[Len(q) + 1 - i]]

\* Two of the orders in which iterating a HashMap may yield its entries.
IterationOrders == {"ascending", "descending"}
IntoIterator(aggregator, iteration) ==
    IF iteration = "ascending" THEN Ascending(aggregator) ELSE Reverse(Ascending(aggregator))

\* Dispatcher::state_hash, iterated by its caller; order is the order in which
\* self.runtimes yields the runtimes, iteration the order in which the returned
\* aggregator yields its entries.
state_hash(m, order, stateful, iteration) ==
    LET dispatcher == extend({}, locate(IndexOwner("Dispatcher", 0),
                                        schema_state_hash(m.fork)))
    IN  IntoIterator(state_hash_runtimes(m, dispatcher, order, stateful, 1), iteration)

\* take_modified_state that reads the flag and leaves it set.
take_modified_state_unreset(m) == [m |-> m, ret |-> m.modified]

\* Dispatcher::take_modified_state
take_modified_state(m) == [m |-> [m EXCEPT !.modified = FALSE], ret |-> m.modified]

\* restart_service that configures the started instance and writes it to the schema, as
\* start_service does.
restart_service_configuring(m, instance, fail) ==
    IF instance.artifact.runtime_id \notin Runtimes THEN Result(m, "IncorrectRuntime")
    ELSE LET s == runtime_start_service(m, instance,
                      IF instance.name = fail THEN Outcome("Err", "Ok", "Ok") ELSE AllOk)
         IN  IF s.ret # "Ok" THEN s
             ELSE LET c == configure_service(s.m, instance, AllOk)
                  IN  add_service_instance(register_running_service(c.m, instance), instance)

\* restart_service that starts the instance without entering it into the lookup table.
restart_service_unregistered(m, instance, fail) ==
    IF instance.artifact.runtime_id \notin Runtimes THEN Result(m, "IncorrectRuntime")
    ELSE runtime_start_service(m, instance,
             IF instance.name = fail THEN Outcome("Err", "Ok", "Ok") ELSE AllOk)

\* Dispatcher::restart_service
restart_service(m, instance, fail) ==
    IF instance.artifact.runtime_id \notin Runtimes THEN Result(m, "IncorrectRuntime")
    ELSE LET s == runtime_start_service(m, instance,
                      IF instance.name = fail THEN Outcome("Err", "Ok", "Ok") ELSE AllOk)
         IN  IF s.ret # "Ok" THEN s
             ELSE Result(register_running_service(s.m, instance), "Ok")

\* First loop of Dispatcher::restore_state, over keys[i..].
RECURSIVE restore_artifacts(_, _, _, _)
restore_artifacts(m, keys, i, fail) ==
    IF i > Len(keys) THEN Result(m, "Ok")
    ELSE LET d == deploy_artifact(m, keys[i],
                      IF keys[i] = fail THEN "UnableToDeploy" ELSE "Ok")
         IN  IF d.ret # "Ok" THEN d ELSE restore_artifacts(d.m, keys, i + 1, fail)

\* Second loop of Dispatcher::restore_state, over names[i..].
RECURSIVE restore_instances(_, _, _, _, _)
restore_instances(m, schema, names, i, fail) ==
    IF i > Len(names) THEN Result(m, "Ok")
    ELSE LET s == restart_service(m, schema.service_instances[names[i]], fail)
         IN  IF s.ret # "Ok" THEN s ELSE restore_instances(s.m, schema, names, i + 1, fail)

\* Dispatcher::restore_state
restore_state(m, schema, failDeploy, failStart) ==
    LET keys  == SelectSeq(ArtifactOrder, LAMBDA a : a \in DOMAIN schema.artifacts)
        names == SelectSeq(NameOrder, LAMBDA n : n \in DOMAIN schema.service_instances)
        d == restore_artifacts(m, keys, 1, failDeploy)
    IN  IF d.ret # "Ok" THEN d
        ELSE restore_instances(d.m, schema, names, 1, failStart)

\* Dispatcher::with_runtimes: fresh runtimes, empty lookup, unmodified.
with_runtimes(schema) ==
    [runtime_lookup |-> EmptyMap, modified |-> FALSE, deployed |-> {},
     fork |-> schema, log |-> <<>>]

(***************************************************************************)
(* Operations.                                                             *)
(***************************************************************************)
CallInfo(iid, mid) == [instance_id |-> iid, method_id |-> mid]
CallInfos == { CallInfo(i, k) : i \in GivenIds, k \in MethodIds }
\* The instances of test_dispatcher_simple, an instance of an artifact no runtime
\* hosts, and one with an id that is not builtin.
InstanceSpecs ==
    { InstanceSpec(2, "n1", A1),
      InstanceSpec(3, "n2", A2),
      InstanceSpec(3, "n1", A3),
      InstanceSpec(MAX_BUILTIN_INSTANCE_ID, "n2", A1) }
BuiltinSpecs == { x \in InstanceSpecs : x.id < MAX_BUILTIN_INSTANCE_ID }
DeployResults == {"Ok", "UnableToDeploy"}
NoArg == [none |-> TRUE]

\* The dispatcher and the runtimes after an operation with result r.
Dispatched(r) ==
    /\ pre' = Machine
    /\ runtime_lookup' = r.m.runtime_lookup
    /\ modified' = r.m.modified
    /\ deployed' = r.m.deployed
    /\ log' = r.m.log
    /\ ret' = r.ret
    /\ UNCHANGED <<wallet_vars, config_vars, core_vars>>

\* An operation on the current fork that is no transaction: the fork keeps what was
\* written, unless the node stopped on a panic, which loses the operation's writes.
Applied(r) ==
    /\ Dispatched(r)
    /\ fork' = IF r.panic THEN fork ELSE r.m.fork
    /\ halted' = r.panic
    /\ UNCHANGED debug_assertions

Init ==
    /\ runtime_lookup = EmptyMap
    /\ modified = FALSE
    /\ deployed = {}
    /\ fork = EmptySchema
    /\ debug_assertions \in BOOLEAN
    /\ halted = FALSE
    /\ pre = with_runtimes(EmptySchema)
    /\ op = "init"
    /\ arg = NoArg
    /\ ret = "Ok"
    /\ log = <<>>
    /\ wallets = EmptyMap
    /\ wallet_history = EmptyMap
    /\ config_schema = EmptyConfigurationSchema
    /\ blockchain_schema = GenesisSchema
    /\ voted = EmptyMap
    /\ transactions = {}

DeployArtifact ==
    /\ ~halted
    /\ \E artifact \in Artifacts, res \in DeployResults :
        /\ res = "Ok" \/ deploy_artifact(Machine, artifact, res)
                            # deploy_artifact(Machine, artifact, "Ok")
        /\ op' = "deploy_artifact"
        /\ arg' = [artifact |-> artifact, res |-> res]
        /\ Applied(deploy_artifact(Machine, artifact, res))

RegisterArtifact ==
    /\ ~halted
    /\ \E artifact \in HostedArtifacts, spec \in Specs :
        /\ op' = "register_artifact"
        /\ arg' = [artifact |-> artifact, spec |-> spec]
        /\ Applied(register_artifact(Machine, artifact, spec))

DeployAndRegisterArtifact ==
    /\ ~halted
    /\ \E artifact \in Artifacts, spec \in Specs, res \in DeployResults :
        /\ res = "Ok" \/ deploy_and_register_artifact(Machine, artifact, spec, res)
                            # deploy_and_register_artifact(Machine, artifact, spec, "Ok")
        /\ op' = "deploy_and_register_artifact"
        /\ arg' = [artifact |-> artifact, spec |-> spec, res |-> res]
        /\ Applied(deploy_and_register_artifact(Machine, artifact, spec, res))

AddBuiltinService ==
    /\ ~halted
    /\ \E spec \in InstanceSpecs, res \in DeployResults, o \in Outcomes :
        /\ o = AllOk \/ add_builtin_service(Machine, spec, res, o)
                            # add_builtin_service(Machine, spec, res, AllOk)
        /\ res = "Ok" \/ add_builtin_service(Machine, spec, res, o)
                            # add_builtin_service(Machine, spec, "Ok", o)
        /\ op' = "add_builtin_service"
        /\ arg' = [spec |-> spec, res |-> res, o |-> o]
        /\ Applied(add_builtin_service(Machine, spec, res, o))

StartService ==
    /\ ~halted
    /\ \E spec \in BuiltinSpecs, o \in Outcomes :
        /\ o = AllOk \/ start_service(Machine, spec, o) # start_service(Machine, spec, AllOk)
        /\ op' = "start_service"
        /\ arg' = [spec |-> spec, o |-> o]
        /\ Applied(start_service(Machine, spec, o))

\* Dispatcher::call with a context of its own, as the dispatcher tests do.
Call ==
    /\ ~halted
    /\ \E call_info \in CallInfos :
        /\ op' = "call"
        /\ arg' = [call_info |-> call_info]
        /\ Applied(call(Machine, call_info))

\* What a service may queue during one call: it starts no two services of one name.
ActionLists ==
    { q \in SeqsUpTo(Actions, MaxActions) :
        \A i, j \in DOMAIN q :
            (i # j /\ q[i].type = "StartService" /\ q[j].type = "StartService")
                => q[i].instance_name # q[j].instance_name }

StartServiceCount(actions) ==
    Cardinality({ i \in DOMAIN actions : actions[i].type = "StartService" })

\* A transaction: Dispatcher::execute, after which the caller keeps the fork on Ok
\* and discards it on an error.  Only a service that ran can have queued actions,
\* and a service that returns an error has queued at most one.
Execute ==
    /\ ~halted
    /\ \E call_info \in CallInfos, actions \in ActionLists :
        /\ call_info.instance_id \notin DOMAIN runtime_lookup => actions = <<>>
        /\ call(Machine, call_info).ret # "Ok" => Len(actions) <= 1
        /\ fork.next_instance_id + StartServiceCount(actions) <= MaxNextId
        /\ LET r == execute(Machine, call_info, actions)
           IN  /\ op' = "execute"
               /\ arg' = [call_info |-> call_info, actions |-> actions]
               /\ Dispatched(r)
               /\ fork' = IF r.ret = "Ok" THEN r.m.fork ELSE fork
               /\ halted' = r.panic
               /\ UNCHANGED debug_assertions

TakeModifiedState ==
    /\ ~halted
    /\ LET r == take_modified_state(Machine)
       IN  /\ op' = "take_modified_state"
           /\ arg' = NoArg
           /\ pre' = Machine
           /\ modified' = r.m.modified
           /\ ret' = IF r.ret THEN "true" ELSE "false"
           /\ log' = <<>>
           /\ UNCHANGED <<runtime_lookup, deployed, fork, debug_assertions, halted>>
           /\ UNCHANGED <<wallet_vars, config_vars, core_vars>>

\* Dispatcher::state_hash on the snapshot of the committed state.
StateHash ==
    /\ ~halted
    /\ \E order \in HashMapOrders, stateful \in BOOLEAN, iteration \in IterationOrders :
        /\ op' = "state_hash"
        /\ arg' = [order |-> order, stateful |-> stateful, iteration |-> iteration]
        /\ pre' = Machine
        /\ log' = state_hash(Machine, order, stateful, iteration)
        /\ ret' = "Ok"
        /\ UNCHANGED <<runtime_lookup, modified, deployed, fork, debug_assertions, halted>>
        /\ UNCHANGED <<wallet_vars, config_vars, core_vars>>

\* What the hooks of the runtimes request during one after_commit.
HookRequests ==
    { q \in [Runtimes -> UNION { SeqsUpTo(DeployRequests(rt), MaxRequests) : rt \in Runtimes }] :
        /\ \A rt \in Runtimes : q[rt] \in SeqsUpTo(DeployRequests(rt), MaxRequests)
        /\ Len(q[First]) + Len(q[Second]) <= MaxRequests }

\* A block was committed: Dispatcher::after_commit on the snapshot.
AfterCommit ==
    /\ ~halted
    /\ \E order \in HashMapOrders, requests \in HookRequests :
        /\ op' = "after_commit"
        /\ arg' = [order |-> order, requests |-> requests]
        /\ Applied(after_commit(Machine, order, requests))

\* The node is started again on the committed state: a new dispatcher over the same
\* runtimes restores itself from the snapshot.
Restart ==
    \E failDeploy \in Artifacts \cup {NoArg}, failStart \in InstanceNames \cup {""} :
        LET r == restore_state(with_runtimes(fork), fork, failDeploy, failStart)
        IN  /\ r.ret = "Ok" => (failDeploy = NoArg /\ failStart = "")
            /\ op' = "restore_state"
            /\ arg' = [failDeploy |-> failDeploy, failStart |-> failStart]
            /\ Dispatched(r)
            /\ fork' = r.m.fork
            /\ halted' = (r.ret # "Ok")
            /\ UNCHANGED debug_assertions

Next ==
    \/ DeployArtifact
    \/ RegisterArtifact
    \/ DeployAndRegisterArtifact
    \/ AddBuiltinService
    \/ StartService
    \/ Call
    \/ Execute
    \/ TakeModifiedState
    \/ AfterCommit
    \/ StateHash
    \/ Restart

Spec == Init /\ [][Next]_vars

(***************************************************************************)
(* Cryptocurrency schema.                                                  *)
(***************************************************************************)
INITIAL_BALANCE == 100
\* Largest balance, and the modulus of wrapping arithmetic.
MaxBalance == 2^BalanceBits - 1
Modulus == MaxBalance + 1

PublicKeys == {"Wa", "Wb"}
\* Amounts of a transfer or an issue: an ordinary one, the largest a new wallet can
\* take, and one no balance can take.
Amounts == {30, MaxBalance - INITIAL_BALANCE, MaxBalance}

\* Wallet::new
Wallet_new(pub_key, name, balance, history_len, history_hash) ==
    [pub_key |-> pub_key, name |-> name, balance |-> balance,
     history_len |-> history_len, history_hash |-> history_hash]

\* Wallet::set_balance: the wallet with the new balance and one more history record.
set_balance(wallet, balance, history_hash) ==
    Wallet_new(wallet.pub_key, wallet.name, balance, wallet.history_len + 1, history_hash)

\* The indexes of SchemaImpl.
WalletSchema == [wallets |-> wallets, wallet_history |-> wallet_history]
EmptyWalletSchema == [wallets |-> EmptyMap, wallet_history |-> EmptyMap]

\* self.wallet_history.get(key): the list of the group, empty until something is pushed.
wallet_history_get(m, key) ==
    IF key \in DOMAIN m.wallet_history THEN m.wallet_history[key] ELSE <<>>

\* history.push(transaction)
history_push(m, key, transaction) ==
    [m EXCEPT !.wallet_history = Put(@, key, Append(wallet_history_get(m, key), transaction))]

\* balance + amount and balance - amount on the unsigned word.
u64_add(a, b) == [value |-> (a + b) % Modulus, overflow |-> a + b > MaxBalance]
u64_sub(a, b) == [value |-> (a - b + Modulus) % Modulus, overflow |-> b > a]

\* increase_wallet_balance that writes the wallet without the new history record.
increase_wallet_balance_unrecorded(m, wallet, amount, transaction) ==
    LET history_hash == object_hash(wallet_history_get(m, wallet.pub_key))
        balance == u64_add(wallet.balance, amount)
    IN  IF balance.overflow /\ debug_assertions THEN Panicked(m, "Panic")
        ELSE Result([m EXCEPT !.wallets =
                        Put(@, wallet.pub_key, set_balance(wallet, balance.value, history_hash))],
                    "Ok")

\* SchemaImpl::increase_wallet_balance
increase_wallet_balance(m, wallet, amount, transaction) ==
    LET m1 == history_push(m, wallet.pub_key, transaction)
        history_hash == object_hash(wallet_history_get(m1, wallet.pub_key))
        balance == u64_add(wallet.balance, amount)
    IN  IF balance.overflow /\ debug_assertions THEN Panicked(m1, "Panic")
        ELSE Result([m1 EXCEPT !.wallets =
                        Put(@, wallet.pub_key, set_balance(wallet, balance.value, history_hash))],
                    "Ok")

\* SchemaImpl::decrease_wallet_balance
decrease_wallet_balance(m, wallet, amount, transaction) ==
    LET m1 == history_push(m, wallet.pub_key, transaction)
        history_hash == object_hash(wallet_history_get(m1, wallet.pub_key))
        balance == u64_sub(wallet.balance, amount)
    IN  IF balance.overflow /\ debug_assertions THEN Panicked(m1, "Panic")
        ELSE Result([m1 EXCEPT !.wallets =
                        Put(@, wallet.pub_key, set_balance(wallet, balance.value, history_hash))],
                    "Ok")

\* create_wallet that hashes the history as it was before the push.
create_wallet_unrecorded(m, key, name, transaction) ==
    LET history == wallet_history_get(m, key)
        m1 == history_push(m, key, transaction)
        wallet == Wallet_new(key, name, INITIAL_BALANCE, Len(history), object_hash(history))
    IN  Result([m1 EXCEPT !.wallets = Put(@, key, wallet)], "Ok")

\* SchemaImpl::create_wallet
create_wallet(m, key, name, transaction) ==
    LET m1 == history_push(m, key, transaction)
        history == wallet_history_get(m1, key)
        wallet == Wallet_new(key, name, INITIAL_BALANCE, Len(history), object_hash(history))
    IN  Result([m1 EXCEPT !.wallets = Put(@, key, wallet)], "Ok")

\* A transfer as the service carries it out: decrease_wallet_balance on the sender,
\* then increase_wallet_balance on the receiver, both wallets read beforehand.
transfer(m, sender, receiver, amount, transaction) ==
    LET d == decrease_wallet_balance(m, sender, amount, transaction)
    IN  IF d.panic THEN d
        ELSE increase_wallet_balance(d.m, receiver, amount, transaction)

\* A schema operation of a transaction with result r: a panic ends the transaction
\* and its fork, with what was written to it, is discarded.
WalletApplied(r) ==
    /\ pre' = WalletSchema
    /\ wallets' = IF r.panic THEN wallets ELSE r.m.wallets
    /\ wallet_history' = IF r.panic THEN wallet_history ELSE r.m.wallet_history
    /\ ret' = r.ret
    /\ UNCHANGED <<dispatcher_vars, config_vars, core_vars, debug_assertions, halted, log>>

\* Number of records in all histories.
RECURSIVE RecordCount(_, _)
RecordCount(m, keys) ==
    IF keys = {} THEN 0
    ELSE LET key == CHOOSE k \in keys : TRUE
         IN  Len(wallet_history_get(m, key)) + RecordCount(m, keys \ {key})

\* Hash of the transaction being executed: no transaction is executed twice, so the
\* hash is one no history holds.
TxHashes == { RecordCount(WalletSchema, PublicKeys) + 1 }

WalletInit ==
    /\ runtime_lookup = EmptyMap
    /\ modified = FALSE
    /\ deployed = {}
    /\ fork = EmptySchema
    /\ debug_assertions \in BOOLEAN
    /\ halted = FALSE
    /\ pre = EmptyWalletSchema
    /\ op = "init"
    /\ arg = NoArg
    /\ ret = "Ok"
    /\ log = <<>>
    /\ wallets = EmptyMap
    /\ wallet_history = EmptyMap
    /\ config_schema = EmptyConfigurationSchema
    /\ blockchain_schema = GenesisSchema
    /\ voted = EmptyMap
    /\ transactions = {}

\* The service creates a wallet for a key that has none.
CreateWallet ==
    \E key \in PublicKeys \ DOMAIN wallets, transaction \in TxHashes :
        /\ Len(wallet_history_get(WalletSchema, key)) < MaxHistory
        /\ op' = "create_wallet"
        /\ arg' = [key |-> key, name |-> key, transaction |-> transaction]
        /\ WalletApplied(create_wallet(WalletSchema, key, key, transaction))

\* The service reads a wallet and passes it to increase_wallet_balance.
IncreaseWalletBalance ==
    \E key \in DOMAIN wallets, amount \in Amounts, transaction \in TxHashes :
        /\ Len(wallet_history_get(WalletSchema, key)) < MaxHistory
        /\ op' = "increase_wallet_balance"
        /\ arg' = [wallet |-> wallets[key], amount |-> amount, transaction |-> transaction]
        /\ WalletApplied(increase_wallet_balance(WalletSchema, wallets[key], amount, transaction))

\* The service reads a wallet and passes it to decrease_wallet_balance.
DecreaseWalletBalance ==
    \E key \in DOMAIN wallets, amount \in Amounts, transaction \in TxHashes :
        /\ Len(wallet_history_get(WalletSchema, key)) < MaxHistory
        /\ op' = "decrease_wallet_balance"
        /\ arg' = [wallet |-> wallets[key], amount |-> amount, transaction |-> transaction]
        /\ WalletApplied(decrease_wallet_balance(WalletSchema, wallets[key], amount, transaction))

\* The service transfers an amount the sender has to a different wallet.
Transfer ==
    \E from \in DOMAIN wallets, to \in DOMAIN wallets, amount \in Amounts,
       transaction \in TxHashes :
        /\ from # to
        /\ amount <= wallets[from].balance
        /\ Len(wallet_history_get(WalletSchema, from)) < MaxHistory
        /\ Len(wallet_history_get(WalletSchema, to)) < MaxHistory
        /\ op' = "transfer"
        /\ arg' = [sender |-> wallets[from], receiver |-> wallets[to], amount |-> amount,
                   transaction |-> transaction]
        /\ WalletApplied(transfer(WalletSchema, wallets[from], wallets[to], amount, transaction))

WalletNext ==
    \/ CreateWallet
    \/ IncreaseWalletBalance
    \/ DecreaseWalletBalance
    \/ Transfer

WalletSpec == WalletInit /\ [][WalletNext]_vars

\* Balances of a wallet value that is not the stored one.
ArgumentBalances == {0, INITIAL_BALANCE, MaxBalance}

\* The wallet values a caller may pass for a key: the stored wallet, the wallet stored
\* before the last operation, the stored wallet with another balance, and for a key
\* that has no wallet a wallet never stored.
WalletArguments(key) ==
    IF key \in DOMAIN wallets
    THEN {wallets[key]}
            \cup { [wallets[key] EXCEPT !.balance = b] : b \in ArgumentBalances }
            \cup (IF key \in DOMAIN pre.wallets THEN {pre.wallets[key]} ELSE {})
    ELSE { Wallet_new(key, key, INITIAL_BALANCE, 0, object_hash(<<>>)) }

\* increase_wallet_balance with any wallet value as its argument.
IncreaseBalanceOfArgument ==
    \E key \in PublicKeys, amount \in Amounts, transaction \in TxHashes :
        \E wallet \in WalletArguments(key) :
            /\ RecordCount(WalletSchema, PublicKeys) < MaxHistory
            /\ op' = "increase_wallet_balance"
            /\ arg' = [wallet |-> wallet, amount |-> amount, transaction |-> transaction]
            /\ WalletApplied(increase_wallet_balance(WalletSchema, wallet, amount, transaction))

\* decrease_wallet_balance with any wallet value as its argument.
DecreaseBalanceOfArgument ==
    \E key \in PublicKeys, amount \in Amounts, transaction \in TxHashes :
        \E wallet \in WalletArguments(key) :
            /\ RecordCount(WalletSchema, PublicKeys) < MaxHistory
            /\ op' = "decrease_wallet_balance"
            /\ arg' = [wallet |-> wallet, amount |-> amount, transaction |-> transaction]
            /\ WalletApplied(decrease_wallet_balance(WalletSchema, wallet, amount, transaction))

SchemaNext ==
    \/ CreateWallet
    \/ IncreaseBalanceOfArgument
    \/ DecreaseBalanceOfArgument

\* The schema methods called with any argument, not only as the service calls them.
SchemaSpec == WalletInit /\ [][SchemaNext]_vars

(***************************************************************************)
(* Configuration service.                                                  *)
(***************************************************************************)
\* The view a transaction executes on, and the calls the transaction made.
View == [config_schema |-> config_schema, blockchain_schema |-> blockchain_schema,
         log |-> <<>>]
Called(m, f) == [m EXCEPT !.log = Append(@, [f |-> f])]

\* Schema::following_configuration, actual_configuration, current_height
following_configuration(m) ==
    IF m.blockchain_schema.following = None THEN None
    ELSE m.blockchain_schema.configs[m.blockchain_schema.following]
actual_configuration(m) == m.blockchain_schema.configs[m.blockchain_schema.actual]
current_height(m) == m.blockchain_schema.height

\* Schema::commit_configuration: the configuration is stored and scheduled to follow.
commit_configuration(m, cfg) ==
    LET called == Called(m, "commit_configuration")
    IN  [called EXCEPT !.blockchain_schema.configs = Put(@, StorageValue_hash(cfg), cfg),
                       !.blockchain_schema.following = StorageValue_hash(cfg)]

\* State::byzantine_majority_count: ceil(2 * total / 3) + 1
byzantine_majority_count(total) == (2 * total + 2) \div 3 + 1

\* position that counts the validators from one.
position_from_one(validators, from) ==
    IF \E i \in DOMAIN validators : validators[i] = from
    THEN CHOOSE i \in DOMAIN validators :
              /\ validators[i] = from
              /\ \A j \in 1..(i - 1) : validators[j] # from
    ELSE -1

\* votes.iter().position(|pk| pk == from)
position(validators, from) ==
    IF \E i \in DOMAIN validators : validators[i] = from
    THEN (CHOOSE i \in DOMAIN validators :
              /\ validators[i] = from
              /\ \A j \in 1..(i - 1) : validators[j] # from) - 1
    ELSE -1
contains(validators, from) == \E i \in DOMAIN validators : validators[i] = from

\* ConfigurationSchema::votes_by_config_hash: the list of the hash, empty until
\* something is appended.
votes_by_config_hash(m, cfg_hash) ==
    IF cfg_hash \in DOMAIN m.config_schema.votes_by_config_hash
    THEN m.config_schema.votes_by_config_hash[cfg_hash]
    ELSE <<>>

\* ConfigurationSchema::get_propose
get_propose(m, cfg_hash) ==
    IF cfg_hash \in DOMAIN m.config_schema.propose_data_by_config_hash
    THEN m.config_schema.propose_data_by_config_hash[cfg_hash].tx_propose
    ELSE None

\* ConfigurationSchema::get_votes: the votes cast, None where no vote was cast.
get_votes(m, cfg_hash) ==
    LET votes_values == votes_by_config_hash(m, cfg_hash)
    IN  [i \in DOMAIN votes_values |->
            IF votes_values[i] = ZEROVOTE THEN None ELSE votes_values[i]]

\* put_propose that sizes the votes by the validators of the proposed configuration.
put_propose_own_validators(m, tx_propose) ==
    LET parsed == try_deserialize(tx_propose.cfg)
        cfg == parsed.value
        cfg_hash == StorageValue_hash(cfg)
        called == Called(m, "put_propose")
    IN  IF parsed.is_err THEN Panicked(called, "Panic")
        ELSE IF get_propose(m, cfg_hash) # None THEN Result(called, "Ok")
        ELSE
            LET num_validators == Len(cfg.validators)
                appended == [i \in 1..num_validators |-> ZEROVOTE]
                propose_data == StorageValueConfigProposeData(
                                    tx_propose, root_hash(appended), num_validators)
            IN  Result(
                    [called EXCEPT
                        !.config_schema.votes_by_config_hash = Put(@, cfg_hash, appended),
                        !.config_schema.propose_data_by_config_hash =
                            Put(@, cfg_hash, propose_data),
                        !.config_schema.config_hash_by_ordinal = Append(@, cfg_hash)],
                    "Ok")

\* put_propose that does not look for a stored propose of the hash.
put_propose_again(m, tx_propose) ==
    LET parsed == try_deserialize(tx_propose.cfg)
        cfg == parsed.value
        cfg_hash == StorageValue_hash(cfg)
        called == Called(m, "put_propose")
    IN  IF parsed.is_err THEN Panicked(called, "Panic")
        ELSE IF cfg.previous_cfg_hash \notin DOMAIN m.blockchain_schema.configs
        THEN Panicked(called, "Panic")
        ELSE
            LET prev_cfg == m.blockchain_schema.configs[cfg.previous_cfg_hash]
                votes_table == votes_by_config_hash(m, cfg_hash)
                num_validators == Len(prev_cfg.validators)
                appended == votes_table \o [i \in 1..num_validators |-> ZEROVOTE]
                propose_data == StorageValueConfigProposeData(
                                    tx_propose, root_hash(appended), num_validators)
            IN  IF debug_assertions /\ votes_table # <<>> THEN Panicked(called, "Panic")
                ELSE Result(
                    [called EXCEPT
                        !.config_schema.votes_by_config_hash = Put(@, cfg_hash, appended),
                        !.config_schema.propose_data_by_config_hash =
                            Put(@, cfg_hash, propose_data),
                        !.config_schema.config_hash_by_ordinal = Append(@, cfg_hash)],
                    "Ok")

\* ConfigurationSchema::put_propose
put_propose(m, tx_propose) ==
    LET parsed == try_deserialize(tx_propose.cfg)
        cfg == parsed.value
        cfg_hash == StorageValue_hash(cfg)
        called == Called(m, "put_propose")
    IN  IF parsed.is_err THEN Panicked(called, "Panic")
        ELSE IF get_propose(m, cfg_hash) # None THEN Result(called, "Ok")
        ELSE IF cfg.previous_cfg_hash \notin DOMAIN m.blockchain_schema.configs
        THEN Panicked(called, "Panic")
        ELSE
            LET prev_cfg == m.blockchain_schema.configs[cfg.previous_cfg_hash]
                votes_table == votes_by_config_hash(m, cfg_hash)
                num_validators == Len(prev_cfg.validators)
                appended == votes_table \o [i \in 1..num_validators |-> ZEROVOTE]
                propose_data == StorageValueConfigProposeData(
                                    tx_propose, root_hash(appended), num_validators)
            IN  IF debug_assertions /\ votes_table # <<>> THEN Panicked(called, "Panic")
                ELSE Result(
                    [called EXCEPT
                        !.config_schema.votes_by_config_hash = Put(@, cfg_hash, appended),
                        !.config_schema.propose_data_by_config_hash =
                            Put(@, cfg_hash, propose_data),
                        !.config_schema.config_hash_by_ordinal = Append(@, cfg_hash)],
                    "Ok")

\* put_vote that stores the propose data with the history hash it had.
put_vote_stale_hash(m, tx_vote) ==
    LET cfg_hash == tx_vote.cfg_hash
        called == Called(m, "put_vote")
    IN  IF cfg_hash \notin DOMAIN m.config_schema.propose_data_by_config_hash
        THEN Panicked(called, "Panic")
        ELSE
            LET propose_data == m.config_schema.propose_data_by_config_hash[cfg_hash]
                prev_cfg_hash == try_deserialize(propose_data.tx_propose.cfg).value
                                    .previous_cfg_hash
            IN  IF prev_cfg_hash \notin DOMAIN m.blockchain_schema.configs
                THEN Panicked(called, "Panic")
                ELSE
                    LET prev_cfg == m.blockchain_schema.configs[prev_cfg_hash]
                        validator_id == position(prev_cfg.validators, tx_vote.from)
                        votes == votes_by_config_hash(m, cfg_hash)
                    IN  IF validator_id < 0 \/ validator_id >= Len(votes)
                        THEN Panicked(called, "Panic")
                        ELSE
                            LET written ==
                                    IF votes[validator_id + 1] = ZEROVOTE
                                    THEN [votes EXCEPT ![validator_id + 1] = tx_vote]
                                    ELSE votes
                            IN  Result(
                                    [called EXCEPT
                                        !.config_schema.votes_by_config_hash =
                                            Put(@, cfg_hash, written),
                                        !.config_schema.propose_data_by_config_hash =
                                            Put(@, cfg_hash, propose_data)],
                                    "Ok")

\* put_vote that writes the vote whatever the slot holds.
put_vote_last_wins(m, tx_vote) ==
    LET cfg_hash == tx_vote.cfg_hash
        called == Called(m, "put_vote")
    IN  IF cfg_hash \notin DOMAIN m.config_schema.propose_data_by_config_hash
        THEN Panicked(called, "Panic")
        ELSE
            LET propose_data == m.config_schema.propose_data_by_config_hash[cfg_hash]
                prev_cfg_hash == try_deserialize(propose_data.tx_propose.cfg).value
                                    .previous_cfg_hash
            IN  IF prev_cfg_hash \notin DOMAIN m.blockchain_schema.configs
                THEN Panicked(called, "Panic")
                ELSE
                    LET prev_cfg == m.blockchain_schema.configs[prev_cfg_hash]
                        validator_id == position(prev_cfg.validators, tx_vote.from)
                        votes == votes_by_config_hash(m, cfg_hash)
                    IN  IF validator_id < 0 \/ validator_id >= Len(votes)
                        THEN Panicked(called, "Panic")
                        ELSE
                            LET written == [votes EXCEPT ![validator_id + 1] = tx_vote]
                            IN  Result(
                                    [called EXCEPT
                                        !.config_schema.votes_by_config_hash =
                                            Put(@, cfg_hash, written),
                                        !.config_schema.propose_data_by_config_hash =
                                            Put(@, cfg_hash,
                                                set_history_hash(propose_data,
                                                                 root_hash(written)))],
                                    "Ok")

\* ConfigurationSchema::put_vote
put_vote(m, tx_vote) ==
    LET cfg_hash == tx_vote.cfg_hash
        called == Called(m, "put_vote")
    IN  IF cfg_hash \notin DOMAIN m.config_schema.propose_data_by_config_hash
        THEN Panicked(called, "Panic")
        ELSE
            LET propose_data == m.config_schema.propose_data_by_config_hash[cfg_hash]
                prev_cfg_hash == try_deserialize(propose_data.tx_propose.cfg).value
                                    .previous_cfg_hash
            IN  IF prev_cfg_hash \notin DOMAIN m.blockchain_schema.configs
                THEN Panicked(called, "Panic")
                ELSE
                    LET prev_cfg == m.blockchain_schema.configs[prev_cfg_hash]
                        validator_id == position(prev_cfg.validators, tx_vote.from)
                        votes == votes_by_config_hash(m, cfg_hash)
                    IN  IF validator_id < 0 \/ validator_id >= Len(votes)
                        THEN Panicked(called, "Panic")
                        ELSE
                            LET written ==
                                    IF votes[validator_id + 1] = ZEROVOTE
                                    THEN [votes EXCEPT ![validator_id + 1] = tx_vote]
                                    ELSE votes
                            IN  Result(
                                    [called EXCEPT
                                        !.config_schema.votes_by_config_hash =
                                            Put(@, cfg_hash, written),
                                        !.config_schema.propose_data_by_config_hash =
                                            Put(@, cfg_hash,
                                                set_history_hash(propose_data,
                                                                 root_hash(written)))],
                                    "Ok")

\* The execute of a propose that does not compare actual_from with the height.
TxConfigPropose_execute_any_height(m, tx) ==
    LET actual_config == actual_configuration(m)
        config_candidate == try_deserialize(tx.cfg)
    IN  IF following_configuration(m) # None THEN Result(m, "Ok")
        ELSE IF ~contains(actual_config.validators, tx.from) THEN Result(m, "Ok")
        ELSE IF config_candidate.is_err THEN Result(m, "Ok")
        ELSE IF config_candidate.value.previous_cfg_hash # StorageValue_hash(actual_config)
        THEN Result(m, "Ok")
        ELSE put_propose(m, tx)

\* <TxConfigPropose as Transaction>::execute
TxConfigPropose_execute(m, tx) ==
    LET actual_config == actual_configuration(m)
        config_candidate == try_deserialize(tx.cfg)
    IN  IF following_configuration(m) # None THEN Result(m, "Ok")
        ELSE IF ~contains(actual_config.validators, tx.from) THEN Result(m, "Ok")
        ELSE IF config_candidate.is_err THEN Result(m, "Ok")
        ELSE IF config_candidate.value.previous_cfg_hash # StorageValue_hash(actual_config)
        THEN Result(m, "Ok")
        ELSE IF config_candidate.value.actual_from <= current_height(m) THEN Result(m, "Ok")
        ELSE put_propose(m, tx)

\* Number of votes cast among the votes of get_votes.
votes_count(votes) == Cardinality({ i \in DOMAIN votes : votes[i] # None })

\* The execute of a vote that does not look for a following configuration.
TxConfigVote_execute_scheduled(m, tx) ==
    LET propose_option == get_propose(m, tx.cfg_hash)
        actual_config == actual_configuration(m)
    IN  IF propose_option = None THEN Result(m, "Ok")
        ELSE IF ~contains(actual_config.validators, tx.from) THEN Result(m, "Ok")
        ELSE
            LET parsed_config == try_deserialize(propose_option.cfg).value
            IN  IF parsed_config.previous_cfg_hash # StorageValue_hash(actual_config)
                THEN Result(m, "Ok")
                ELSE IF parsed_config.actual_from <= current_height(m) THEN Result(m, "Ok")
                ELSE
                    LET put == put_vote(m, tx)
                    IN  IF put.panic THEN put
                        ELSE IF votes_count(get_votes(put.m, tx.cfg_hash))
                                    >= byzantine_majority_count(Len(actual_config.validators))
                        THEN Result(commit_configuration(put.m, parsed_config), "Ok")
                        ELSE put

\* The execute of a vote that commits the configuration when the votes exceed the
\* majority count.
TxConfigVote_execute_above_majority(m, tx) ==
    LET propose_option == get_propose(m, tx.cfg_hash)
        actual_config == actual_configuration(m)
    IN  IF propose_option = None THEN Result(m, "Ok")
        ELSE IF following_configuration(m) # None THEN Result(m, "Ok")
        ELSE IF ~contains(actual_config.validators, tx.from) THEN Result(m, "Ok")
        ELSE
            LET parsed_config == try_deserialize(propose_option.cfg).value
            IN  IF parsed_config.previous_cfg_hash # StorageValue_hash(actual_config)
                THEN Result(m, "Ok")
                ELSE IF parsed_config.actual_from <= current_height(m) THEN Result(m, "Ok")
                ELSE
                    LET put == put_vote(m, tx)
                    IN  IF put.panic THEN put
                        ELSE IF votes_count(get_votes(put.m, tx.cfg_hash))
                                    > byzantine_majority_count(Len(actual_config.validators))
                        THEN Result(commit_configuration(put.m, parsed_config), "Ok")
                        ELSE put

\* The execute of a vote that does not compare the previous configuration of the
\* propose with the actual one.
TxConfigVote_execute_any_previous(m, tx) ==
    LET propose_option == get_propose(m, tx.cfg_hash)
        actual_config == actual_configuration(m)
    IN  IF propose_option = None THEN Result(m, "Ok")
        ELSE IF following_configuration(m) # None THEN Result(m, "Ok")
        ELSE IF ~contains(actual_config.validators, tx.from) THEN Result(m, "Ok")
        ELSE
            LET parsed_config == try_deserialize(propose_option.cfg).value
            IN  IF parsed_config.actual_from <= current_height(m) THEN Result(m, "Ok")
                ELSE
                    LET put == put_vote(m, tx)
                    IN  IF put.panic THEN put
                        ELSE IF votes_count(get_votes(put.m, tx.cfg_hash))
                                    >= byzantine_majority_count(Len(actual_config.validators))
                        THEN Result(commit_configuration(put.m, parsed_config), "Ok")
                        ELSE put

\* <TxConfigVote as Transaction>::execute
TxConfigVote_execute(m, tx) ==
    LET propose_option == get_propose(m, tx.cfg_hash)
        actual_config == actual_configuration(m)
    IN  IF propose_option = None THEN Result(m, "Ok")
        ELSE IF following_configuration(m) # None THEN Result(m, "Ok")
        ELSE IF ~contains(actual_config.validators, tx.from) THEN Result(m, "Ok")
        ELSE
            LET parsed_config == try_deserialize(propose_option.cfg).value
            IN  IF parsed_config.previous_cfg_hash # StorageValue_hash(actual_config)
                THEN Result(m, "Ok")
                ELSE IF parsed_config.actual_from <= current_height(m) THEN Result(m, "Ok")
                ELSE
                    LET put == put_vote(m, tx)
                    IN  IF put.panic THEN put
                        ELSE IF votes_count(get_votes(put.m, tx.cfg_hash))
                                    >= byzantine_majority_count(Len(actual_config.validators))
                        THEN Result(commit_configuration(put.m, parsed_config), "Ok")
                        ELSE put

\* The state after a transaction with result r: a panic ends the transaction and its
\* changes are discarded.
Executed(r) ==
    /\ pre' = View
    /\ config_schema' = IF r.panic THEN config_schema ELSE r.m.config_schema
    /\ blockchain_schema' = IF r.panic THEN blockchain_schema ELSE r.m.blockchain_schema
    /\ log' = r.m.log
    /\ ret' = r.ret
    /\ UNCHANGED <<dispatcher_vars, wallet_vars, core_vars, debug_assertions, halted>>

ConfigInit ==
    /\ runtime_lookup = EmptyMap
    /\ modified = FALSE
    /\ deployed = {}
    /\ fork = EmptySchema
    /\ debug_assertions \in BOOLEAN
    /\ halted = FALSE
    /\ pre = [config_schema |-> EmptyConfigurationSchema,
              blockchain_schema |-> GenesisSchema, log |-> <<>>]
    /\ op = "init"
    /\ arg = NoArg
    /\ ret = "Ok"
    /\ log = <<>>
    /\ wallets = EmptyMap
    /\ wallet_history = EmptyMap
    /\ config_schema = EmptyConfigurationSchema
    /\ blockchain_schema = GenesisSchema
    /\ voted = EmptyMap
    /\ transactions = {}

\* The propose transactions sent: every candidate in the compact layout by one
\* validator, one candidate again by another validator in another layout, a candidate
\* by a node that is no validator, and a text that is no configuration.
ProposeTxs ==
    { TxConfigPropose("V1", Json(cfg, "compact")) : cfg \in Candidates }
        \cup { TxConfigPropose("V2", Json(CandidateA, "pretty")),
               TxConfigPropose("X", Json(CandidateA, "compact")),
               TxConfigPropose("V1", NotJson) }

\* The vote transactions sent: for the first candidate by every node, by one of them
\* under either signature; for the second by a validator of every configuration and by
\* one of the genesis configuration only; for the third by the validators of the
\* configuration it follows.
VoteTxs ==
    { TxConfigVote(from, StorageValue_hash(CandidateA), "s1") : from \in Senders }
        \cup { TxConfigVote("V1", StorageValue_hash(CandidateA), sig) : sig \in Signatures }
        \cup { TxConfigVote(from, StorageValue_hash(CandidateB), "s1") : from \in {"V1", "V4"} }
        \cup { TxConfigVote(from, StorageValue_hash(CandidateC), "s1") :
                    from \in {"V1", "V2", "V3"} }

\* A propose transaction of the block is executed.
Propose ==
    \E tx \in ProposeTxs :
        /\ op' = "TxConfigPropose"
        /\ arg' = tx
        /\ Executed(TxConfigPropose_execute(View, tx))
        /\ UNCHANGED voted

\* A vote transaction of the block is executed.
Vote ==
    \E tx \in VoteTxs :
        LET r == TxConfigVote_execute(View, tx)
            applied == ~r.panic /\ \E i \in DOMAIN r.m.log : r.m.log[i].f = "put_vote"
        IN  /\ op' = "TxConfigVote"
            /\ arg' = tx
            /\ Executed(r)
            /\ voted' = IF applied
                        THEN Put(voted, tx.cfg_hash,
                                 (IF tx.cfg_hash \in DOMAIN voted THEN voted[tx.cfg_hash]
                                  ELSE {}) \cup {tx.from})
                        ELSE voted

\* The block is committed: the height grows, and the following configuration becomes
\* the actual one at the height it is scheduled from.
CommitBlock ==
    /\ blockchain_schema.height < MaxHeight
    /\ LET height == blockchain_schema.height + 1
           following == following_configuration(View)
           due == following # None /\ following.actual_from <= height
       IN  /\ blockchain_schema' =
                [blockchain_schema EXCEPT
                    !.height = height,
                    !.actual = IF due THEN blockchain_schema.following ELSE @,
                    !.following = IF due THEN None ELSE @]
           /\ op' = "commit_block"
           /\ arg' = NoArg
           /\ pre' = View
           /\ ret' = "Ok"
           /\ log' = <<>>
           /\ UNCHANGED <<config_schema, voted>>
           /\ UNCHANGED <<dispatcher_vars, wallet_vars, core_vars, debug_assertions, halted>>

ConfigNext ==
    \/ Propose
    \/ Vote
    \/ CommitBlock

ConfigSpec == ConfigInit /\ [][ConfigNext]_vars

(***************************************************************************)
(* A block of transactions, as the testkit creates it.                     *)
(***************************************************************************)
\* keypair.timestamp(instance_id, arg): a transaction calling a method of an instance.
Transaction(call_info, payload) == [call_info |-> call_info, payload |-> payload]

\* The transactions of the example, addressed to the method that returns Ok, and with
\* them one for a method that returns an error and one for another instance.
ExampleTransactions ==
    { Transaction(CallInfo(SampleInstance(First), SampleMethod(First)), payload) :
        payload \in {"Down To Earth", "Cry Over Spilt Milk", "Dropping Like Flies"} }
        \cup { Transaction(CallInfo(SampleInstance(First), SampleMethod(Second)), "Foo"),
               Transaction(CallInfo(SampleInstance(Second), SampleMethod(Second)), "Bar") }

\* What a block reports of a transaction.
TransactionResult(transaction, status) ==
    [tx_hash |-> object_hash(transaction), status |-> status]

\* The fork of the block after a transaction with result r: it keeps what the
\* transaction wrote if it returned Ok.
merged(m, r) ==
    [r EXCEPT !.m = IF r.ret = "Ok" THEN r.m ELSE [r.m EXCEPT !.fork = m.fork]]

\* One transaction executed on the fork of the block.
execute_transaction(m, transaction) ==
    merged(m, execute(m, transaction.call_info, <<>>))

\* The block with the result r of the next transaction.
reported(block, transaction, r) ==
    [m |-> r.m, block |-> Append(block.block, TransactionResult(transaction, r.ret))]

\* TestKit::create_block_with_transactions: the transactions executed one after
\* another, each on what the one before it left, and the results in that order.
create_block_with_transactions(m, txs) ==
    LET after[i \in 0..Len(txs)] ==
            IF i = 0 THEN [m |-> m, block |-> <<>>]
            ELSE reported(after[i - 1], txs[i], execute_transaction(after[i - 1].m, txs[i]))
    IN  after[Len(txs)]

\* Blocks of transactions none of which occurs twice, and those of them none of whose
\* transactions is committed.
DistinctBlocks ==
    { txs \in SeqsUpTo(ExampleTransactions, MaxBlock) :
        /\ txs # <<>>
        /\ \A i, j \in DOMAIN txs : i # j => txs[i] # txs[j] }
Blocks ==
    { txs \in DistinctBlocks :
        \A i \in DOMAIN txs : object_hash(txs[i]) \notin transactions }

\* The state after the block r of the transactions txs: what the block left is
\* committed, with the hashes of its transactions.
Committed(r, txs) ==
    /\ pre' = Machine
    /\ runtime_lookup' = r.m.runtime_lookup
    /\ modified' = r.m.modified
    /\ deployed' = r.m.deployed
    /\ fork' = r.m.fork
    /\ log' = r.m.log
    /\ ret' = r.block
    /\ transactions' = transactions \cup { object_hash(txs[i]) : i \in DOMAIN txs }
    /\ UNCHANGED <<wallet_vars, config_vars, debug_assertions, halted>>

\* The testkit creates a block of the transactions and commits it.
CreateBlockWithTransactions ==
    /\ ~halted
    /\ \E txs \in Blocks :
        /\ op' = "create_block_with_transactions"
        /\ arg' = [txs |-> txs]
        /\ Committed(create_block_with_transactions(Machine, txs), txs)

\* The testkit is built with the artifacts and the instances of its builder, which
\* the dispatcher adds as builtin services, and creates blocks.
BlockNext ==
    \/ AddBuiltinService
    \/ CreateBlockWithTransactions

BlockSpec == Init /\ [][BlockNext]_vars

(***************************************************************************)
(* Properties.                                                             *)
(***************************************************************************)
EventsOf(f) == SelectSeq(log, LAMBDA e : e.f = f)
Positions(f) == { p \in DOMAIN log : log[p].f = f }
\* Instance ids the operation performed last added to the lookup table.
NewIds == DOMAIN runtime_lookup \ DOMAIN pre.runtime_lookup
ServiceCalls == {"start_service", "configure_service", "stop_service"}

\* C1: while the node runs, every instance id of runtime_lookup has a persistent
\* service_instances entry with that id whose artifact's runtime is the looked-up one.
C1_LookupIsPersisted ==
    ~halted =>
        \A iid \in DOMAIN runtime_lookup :
            \E n \in DOMAIN fork.service_instances :
                /\ fork.service_instances[n].id = iid
                /\ fork.service_instances[n].artifact.runtime_id = runtime_lookup[iid]

\* C2: start_service with an id that is already a key of runtime_lookup returns
\* ServiceIdExists, calls no runtime method and changes neither the lookup table nor
\* the schema.
C2_ServiceIdExists ==
    (op = "start_service" /\ arg.spec.id \in DOMAIN pre.runtime_lookup) =>
        /\ ret = "ServiceIdExists"
        /\ \A p \in DOMAIN log : log[p].f \notin ServiceCalls
        /\ runtime_lookup = pre.runtime_lookup
        /\ fork = pre.fork

C2_Witness ==
    /\ op = "start_service"
    /\ arg.spec.id \in DOMAIN pre.runtime_lookup
    /\ ret = "ServiceIdExists"

\* C3: call fails with IncorrectInstanceId for an id outside runtime_lookup and with
\* IncorrectRuntime for a looked-up runtime outside the registry, without reaching a
\* runtime; otherwise exactly the looked-up runtime executes once and its result is
\* returned.
C3_CallRoutes ==
    op = "call" =>
        LET iid == arg.call_info.instance_id
        IN  IF iid \notin DOMAIN pre.runtime_lookup
            THEN ret = "IncorrectInstanceId" /\ log = <<>>
            ELSE IF pre.runtime_lookup[iid] \notin Runtimes
            THEN ret = "IncorrectRuntime" /\ log = <<>>
            ELSE /\ log = << Ev("execute", pre.runtime_lookup[iid], iid, "") >>
                 /\ ret = runtime_execute(pre, pre.runtime_lookup[iid], arg.call_info).ret

C3_Witness ==
    /\ op = "call"
    /\ ret = "Ok"
    /\ \E i, j \in DOMAIN runtime_lookup : runtime_lookup[i] # runtime_lookup[j]

\* C4: execute runs the queued actions only after the top-level call returned Ok,
\* in the order they were queued, all of them when it returns Ok; when the call
\* fails no action runs and execute returns the call's error.
C4_ActionsAfterCallInOrder ==
    op = "execute" =>
        LET acts == EventsOf("action")
            c == call(pre, arg.call_info)
        IN  /\ Len(acts) <= Len(arg.actions)
            /\ \A i \in DOMAIN acts :
                    acts[i].id = i /\ acts[i].name = arg.actions[i].type
            /\ \A p \in Positions("action") : \E q \in Positions("execute") : q < p
            /\ c.ret # "Ok" => (acts = <<>> /\ ret = c.ret)
            /\ ret = "Ok" => Len(acts) = Len(arg.actions)

C4_Witness ==
    /\ op = "execute"
    /\ ret = "Ok"
    /\ Len(EventsOf("action")) = 2

\* C5: when a deferred action fails, execute returns that action's error and runs
\* nothing after it.
C5_FailedActionEndsExecute ==
    op = "execute" =>
        \A p \in Positions("action_result") :
            log[p].name # "Ok" => (p = Len(log) /\ ret = log[p].name)

C5_Witness ==
    /\ op = "execute"
    /\ ~halted
    /\ Len(arg.actions) = 2
    /\ \E p \in Positions("action_result") : log[p].id = 1 /\ log[p].name # "Ok"

\* C6: an execute whose call succeeded marks the dispatcher modified when the taken
\* action list is non-empty, whether or not the actions succeed, and leaves the
\* flag alone when the list is empty.
C6_ModifiedIffActions ==
    (op = "execute" /\ ~halted /\ call(pre, arg.call_info).ret = "Ok") =>
        /\ arg.actions # <<>> => modified
        /\ arg.actions = <<>> => modified = pre.modified

\* The ids assign_instance_id returned during the operation performed last, in order.
AssignedIds == EventsOf("assign_instance_id")

\* C7: next_instance_id is at least 1024, never decreases, and after the StartService
\* actions of an execute, successful or failing, is greater than every id they were
\* assigned.
C7_NextIdAboveAssigned ==
    ~halted =>
        /\ fork.next_instance_id >= MAX_BUILTIN_INSTANCE_ID
        /\ fork.next_instance_id >= pre.fork.next_instance_id
        /\ \A i \in DOMAIN AssignedIds : AssignedIds[i].id < fork.next_instance_id

\* C7, amended: next_instance_id is at least 1024 and no operation leaves it smaller
\* than it found it; the StartService actions of one execute are assigned consecutive
\* ids starting at the counter's value before the transaction; an execute that returns
\* Ok leaves the counter above all of them, and one that returns an error leaves it,
\* once its fork is discarded, at its value before the transaction.
C7_NextIdPerTransaction ==
    /\ fork.next_instance_id >= MAX_BUILTIN_INSTANCE_ID
    /\ fork.next_instance_id >= pre.fork.next_instance_id
    /\ \A i \in DOMAIN AssignedIds :
            AssignedIds[i].id = pre.fork.next_instance_id + i - 1
    /\ IF op = "execute" /\ ret = "Ok"
       THEN fork.next_instance_id = pre.fork.next_instance_id + Len(AssignedIds)
       ELSE fork.next_instance_id = pre.fork.next_instance_id
    /\ op # "execute" => AssignedIds = <<>>

C7_Witness ==
    /\ op = "execute"
    /\ ~halted
    /\ ret # "Ok"
    /\ AssignedIds # <<>>

C9_InstanceArtifactsRegistered ==
    ~halted =>
        \A n \in DOMAIN fork.service_instances :
            fork.service_instances[n].artifact \in DOMAIN fork.artifacts

\* C10: deploy_artifact for an artifact of a runtime outside the registry yields
\* IncorrectRuntime without calling a runtime, and deploy_artifact never changes the
\* schema or the lookup table.
C10_DeployArtifactFrame ==
    op = "deploy_artifact" =>
        /\ arg.artifact.runtime_id \notin Runtimes =>
                (ret = "IncorrectRuntime" /\ log = <<>>)
        /\ fork = pre.fork
        /\ runtime_lookup = pre.runtime_lookup

C10_Witness ==
    /\ op = "deploy_artifact"
    /\ arg.artifact.runtime_id \notin Runtimes
    /\ ret = "IncorrectRuntime"

StartOps == {"start_service", "add_builtin_service"}
StopEvents == EventsOf("stop_service")
\* The runtime started the instance and its configuration did not return Ok.
ConfigureFailed ==
    /\ op \in StartOps
    /\ Positions("configure_service") # {}
    /\ arg.o.cfg # "Ok"

\* C12: when the runtime started the instance and configure_service fails, stop_service
\* is called exactly once, for that spec and after the configuration; if it succeeds
\* the configuration error is returned with runtime_lookup and service_instances
\* unchanged, and if it fails the dispatcher panics with a fatal error.
C12_ConfigureFailureStops ==
    ConfigureFailed =>
        /\ Len(StopEvents) = 1
        /\ StopEvents[1] = Ev("stop_service", arg.spec.artifact.runtime_id,
                              arg.spec.id, arg.spec.name)
        /\ \A p \in Positions("stop_service") :
                \A q \in Positions("configure_service") : q < p
        /\ IF arg.o.stop = "Ok"
           THEN /\ ~halted
                /\ ret \in {"ConfigureError", "PanicError"}
                /\ runtime_lookup = pre.runtime_lookup
                /\ fork.service_instances = pre.fork.service_instances
           ELSE /\ halted
                /\ ret = "FatalError"

C12_Witness ==
    /\ ConfigureFailed
    /\ arg.o.cfg = "Err"
    /\ arg.o.stop = "Ok"
    /\ ret = "ConfigureError"
    /\ pre.runtime_lookup # EmptyMap

\* C13: a panic of the runtime's configure_service during start_service does not
\* unwind: the dispatcher, the runtimes and the schema end as they do when the
\* configuration returns an error, stop_service having been called once, and when
\* the stop succeeds an error is returned and the instance is in neither
\* runtime_lookup nor service_instances.
C13_ConfigurePanicIsError ==
    (op = "start_service" /\ Positions("configure_service") # {} /\ arg.o.cfg = "Panic") =>
        LET e == start_service(pre, arg.spec, [arg.o EXCEPT !.cfg = "Err"])
        IN  /\ e.panic = halted
            /\ e.m.log = log
            /\ e.m.runtime_lookup = runtime_lookup
            /\ e.m.deployed = deployed
            /\ ~halted => e.m.fork = fork
            /\ Len(StopEvents) = 1
            /\ arg.o.stop = "Ok" =>
                    /\ ~halted
                    /\ ret = "PanicError"
                    /\ arg.spec.id \notin DOMAIN runtime_lookup
                    /\ fork.service_instances = pre.fork.service_instances

C13_Witness ==
    /\ op = "start_service"
    /\ arg.o.cfg = "Panic"
    /\ arg.o.stop = "Ok"
    /\ ret = "PanicError"

\* C14: start_service of an instance with an unused id, whose runtime is registered
\* but has not deployed the artifact, returns ArtifactNotDeployed and leaves the
\* schema and runtime_lookup unchanged; a call to that instance id then fails.
C14_ArtifactNotDeployed ==
    ( /\ op = "start_service"
      /\ arg.spec.id \notin DOMAIN pre.runtime_lookup
      /\ arg.spec.artifact.runtime_id \in Runtimes
      /\ arg.spec.artifact \notin pre.deployed ) =>
        /\ ret = "ArtifactNotDeployed"
        /\ ~halted
        /\ fork = pre.fork
        /\ runtime_lookup = pre.runtime_lookup
        /\ \A k \in MethodIds : call(Machine, CallInfo(arg.spec.id, k)).ret # "Ok"

C14_Witness ==
    /\ op = "start_service"
    /\ ret = "ArtifactNotDeployed"
    /\ runtime_lookup # EmptyMap

\* C15: a start_service that returns Ok has added spec.id -> spec.artifact.runtime_id to
\* runtime_lookup and the spec to service_instances, and a call to spec.id is then
\* executed by that runtime; start_service of an instance with an unused id whose
\* runtime is not in the registry returns IncorrectRuntime, calls no runtime and
\* changes neither.
C15_StartedIsRouted ==
    op = "start_service" =>
        LET spec == arg.spec
            rt == spec.artifact.runtime_id
        IN  /\ ret = "Ok" =>
                /\ runtime_lookup = Put(pre.runtime_lookup, spec.id, rt)
                /\ fork.service_instances = Put(pre.fork.service_instances, spec.name, spec)
                /\ \A k \in MethodIds :
                        call(Machine, CallInfo(spec.id, k)).m.log
                            = << Ev("execute", rt, spec.id, "") >>
            /\ (spec.id \notin DOMAIN pre.runtime_lookup /\ rt \notin Runtimes) =>
                /\ ret = "IncorrectRuntime"
                /\ log = <<>>
                /\ runtime_lookup = pre.runtime_lookup
                /\ fork = pre.fork

C15_Witness ==
    /\ op = "start_service"
    /\ ret = "Ok"
    /\ pre.runtime_lookup # EmptyMap
    /\ arg.spec.id \in DOMAIN runtime_lookup

HookEvents == EventsOf("after_commit")
RequestEvents == EventsOf("request_deploy_artifact")
TakenEvents == EventsOf("deploy_request")
\* The deployment of the k-th request of runtime rt succeeds.
Deploys(rt, k) ==
    /\ arg.requests[rt][k].artifact.runtime_id \in Runtimes
    /\ arg.requests[rt][k].res = "Ok"
Callbacks(rt, k) == { p \in Positions("and_then") : log[p].rt = rt /\ log[p].id = k }

\* C16: after_commit runs the hook of every runtime before it processes any buffered
\* deploy request, processes all the requests in the order they were buffered whether
\* or not earlier deployments failed, returns normally, and invokes the and_then of a
\* request once if its deployment succeeded and never if it failed.
C16_DeployRequestsAfterHooks ==
    op = "after_commit" =>
        /\ ret = "Ok"
        /\ ~halted
        /\ Len(HookEvents) = Cardinality(Runtimes)
        /\ \A p \in Positions("after_commit") \cup Positions("request_deploy_artifact") :
                \A q \in Positions("deploy_request") : p < q
        /\ Len(RequestEvents) = Len(arg.requests[First]) + Len(arg.requests[Second])
        /\ Len(TakenEvents) = Len(RequestEvents)
        /\ \A i \in DOMAIN TakenEvents :
                /\ TakenEvents[i].rt = RequestEvents[i].rt
                /\ TakenEvents[i].id = RequestEvents[i].id
                /\ TakenEvents[i].name = RequestEvents[i].name
        /\ \A rt \in Runtimes : \A k \in DOMAIN arg.requests[rt] :
                Cardinality(Callbacks(rt, k)) = IF Deploys(rt, k) THEN 1 ELSE 0

C16_Witness ==
    /\ op = "after_commit"
    /\ Len(TakenEvents) = MaxRequests
    /\ \E p \in Positions("warn"), q \in Positions("and_then") : p < q

\* C17: every after_commit invokes the hooks of the runtimes in the order in which the
\* runtimes were added to the dispatcher.
C17_HooksInRegistrationOrder ==
    op = "after_commit" =>
        /\ Len(HookEvents) = Len(RegistrationOrder)
        /\ \A i \in DOMAIN HookEvents : HookEvents[i].rt = RegistrationOrder[i]

\* The persisted service instances.
Persisted == { fork.service_instances[n] : n \in DOMAIN fork.service_instances }

\* C18: restore_state of a new dispatcher on a committed snapshot returns an error when
\* a deployment or a start fails or an instance's runtime is missing; otherwise every
\* persisted artifact is deployed, runtime_lookup is exactly the map from the id of
\* every persisted instance to its artifact's runtime, and a call to a persisted
\* instance goes to the runtime it went to before the restart.
C18_RestoreState ==
    op = "restore_state" =>
        /\ arg.failDeploy \in DOMAIN fork.artifacts => ret # "Ok"
        /\ arg.failStart \in DOMAIN fork.service_instances => ret # "Ok"
        /\ (\E i \in Persisted : i.artifact.runtime_id \notin Runtimes) => ret # "Ok"
        /\ ret = "Ok" =>
            /\ \A a \in DOMAIN fork.artifacts : is_deployed(Machine, a)
            /\ DOMAIN runtime_lookup = { i.id : i \in Persisted }
            /\ \A i \in Persisted :
                /\ runtime_lookup[i.id] = i.artifact.runtime_id
                /\ i.id \in DOMAIN pre.runtime_lookup =>
                        pre.runtime_lookup[i.id] = runtime_lookup[i.id]
                /\ \A k \in MethodIds :
                        call(Machine, CallInfo(i.id, k)).m.log
                            = << Ev("execute", i.artifact.runtime_id, i.id, "") >>

C18_Witness ==
    /\ op = "restore_state"
    /\ ret = "Ok"
    /\ \E i, j \in Persisted : i.artifact.runtime_id # j.artifact.runtime_id
    /\ \A i \in Persisted : i.id \in DOMAIN pre.runtime_lookup

\* The pairs two dispatchers with the same runtimes yield on the snapshot are the same.
SameCollection ==
    \A order \in HashMapOrders, iteration \in IterationOrders :
        LET other == state_hash(pre, order, arg.stateful, iteration)
        IN  { other[i] : i \in DOMAIN other } = { log[i] : i \in DOMAIN log }

\* C19: state_hash yields the same pairs on the same snapshot whichever dispatcher with
\* these runtimes computes it; the pairs of one owner come together, and in increasing
\* order of coordinate.
C19_StateHashDeterministicOrdered ==
    op = "state_hash" =>
        /\ SameCollection
        /\ \A i, j, k \in DOMAIN log :
                (i < j /\ j < k /\ log[i].coord.owner = log[k].coord.owner)
                    => log[j].coord.owner = log[i].coord.owner
        /\ \A i, j \in DOMAIN log :
                (i < j /\ log[i].coord.owner = log[j].coord.owner)
                    => CoordLess(log[i].coord, log[j].coord)

\* The part of C19 that holds: the pairs yielded, taken as a set, do not depend on
\* the dispatcher that computes them.
C19_SameCollection ==
    op = "state_hash" => SameCollection

C21_CreateWallet ==
    op = "create_wallet" =>
        /\ ret = "Ok"
        /\ wallet_history = Put(pre.wallet_history, arg.key,
                Append(wallet_history_get(pre, arg.key), arg.transaction))
        /\ wallets = Put(pre.wallets, arg.key,
                [pub_key |-> arg.key, name |-> arg.name, balance |-> INITIAL_BALANCE,
                 history_len |-> 1, history_hash |-> object_hash(<< arg.transaction >>)])

C21_Witness ==
    /\ op = "create_wallet"
    /\ pre.wallets # EmptyMap
    /\ wallets[arg.key].history_len = 1

Last(q) == q[Len(q)]
\* The transfer performed last ran both of its operations.
Transferred == op = "transfer" /\ ret = "Ok"
SenderKey == arg.sender.pub_key
ReceiverKey == arg.receiver.pub_key

\* C22: a transfer of an amount the sender has, carried out as decrease_wallet_balance
\* on the sender and increase_wallet_balance on a different receiver, leaves the
\* sender with the amount less, the receiver with the amount more, the sum of the two
\* balances unchanged, and each history one element longer with the transaction last.
C22_Transfer ==
    Transferred =>
        /\ wallets[SenderKey].balance = pre.wallets[SenderKey].balance - arg.amount
        /\ wallets[ReceiverKey].balance = pre.wallets[ReceiverKey].balance + arg.amount
        /\ wallets[SenderKey].balance + wallets[ReceiverKey].balance
                = pre.wallets[SenderKey].balance + pre.wallets[ReceiverKey].balance
        /\ \A key \in {SenderKey, ReceiverKey} :
                /\ Len(wallet_history[key]) = Len(pre.wallet_history[key]) + 1
                /\ Last(wallet_history[key]) = arg.transaction

\* The part of C22 that holds: a transfer the receiver's balance has room for.
C22_TransferWithinRange ==
    (Transferred /\ pre.wallets[ReceiverKey].balance + arg.amount <= MaxBalance) =>
        /\ wallets[SenderKey].balance = pre.wallets[SenderKey].balance - arg.amount
        /\ wallets[ReceiverKey].balance = pre.wallets[ReceiverKey].balance + arg.amount
        /\ \A key \in {SenderKey, ReceiverKey} :
                wallet_history[key] = Append(pre.wallet_history[key], arg.transaction)

\* The balance operation performed last was given an amount its result cannot hold.
OutOfRange ==
    \/ op = "increase_wallet_balance" /\ arg.wallet.balance + arg.amount > MaxBalance
    \/ op = "decrease_wallet_balance" /\ arg.amount > arg.wallet.balance

\* C23: increase_wallet_balance whose sum exceeds the largest balance, and
\* decrease_wallet_balance of more than the balance, fail and store no wallet.
C23_NoWrappedBalance ==
    OutOfRange =>
        /\ ret # "Ok"
        /\ wallets = pre.wallets

\* The state before the transaction performed last, and the validators then.
Range(q) == { q[i] : i \in DOMAIN q }
PreActual == pre.blockchain_schema.configs[pre.blockchain_schema.actual]
PreProposes == pre.config_schema.propose_data_by_config_hash
Proposes == config_schema.propose_data_by_config_hash
SchemaChanged == config_schema # pre.config_schema

\* What a propose must meet to be stored.
ProposeAcceptable ==
    /\ pre.blockchain_schema.following = None
    /\ arg.from \in Range(PreActual.validators)
    /\ ~try_deserialize(arg.cfg).is_err
    /\ arg.cfg.json.previous_cfg_hash = pre.blockchain_schema.actual
    /\ arg.cfg.json.actual_from > pre.blockchain_schema.height
    /\ StorageValue_hash(arg.cfg.json) \notin DOMAIN PreProposes

\* C24: a propose transaction changes the configuration schema if and only if no
\* following configuration is scheduled, its sender is a validator of the actual
\* configuration, its cfg parses, the cfg names the actual configuration as the previous
\* one, its actual_from is above the current height and no propose of the same
\* configuration hash is stored.
C24_ProposeAccepted ==
    op = "TxConfigPropose" => (SchemaChanged <=> ProposeAcceptable)

C24_Witness ==
    /\ op = "TxConfigPropose"
    /\ SchemaChanged
    /\ ProposeAcceptable
    /\ pre.blockchain_schema.height > 0

\* The configuration a propose names as the previous one, and the list of n zero votes.
PreviousOf(cfg) == pre.blockchain_schema.configs[cfg.previous_cfg_hash]
ZeroVotes(n) == [i \in 1..n |-> ZEROVOTE]

\* C25: when a propose is accepted, the votes of its configuration hash become N zero
\* votes, N being the number of validators of the configuration its cfg names as the
\* previous one; the propose is stored under the hash with num_votes = N and the root
\* hash of that list; and the hash becomes the last element of config_hash_by_ordinal.
C25_ProposeStored ==
    (op = "TxConfigPropose" /\ SchemaChanged) =>
        LET cfg_hash == StorageValue_hash(arg.cfg.json)
            N == Len(PreviousOf(arg.cfg.json).validators)
        IN  /\ cfg_hash \in DOMAIN config_schema.votes_by_config_hash
            /\ config_schema.votes_by_config_hash[cfg_hash] = ZeroVotes(N)
            /\ cfg_hash \in DOMAIN Proposes
            /\ Proposes[cfg_hash] =
                    StorageValueConfigProposeData(arg, root_hash(ZeroVotes(N)), N)
            /\ config_schema.config_hash_by_ordinal =
                    Append(pre.config_schema.config_hash_by_ordinal, cfg_hash)

C25_Witness ==
    /\ op = "TxConfigPropose"
    /\ SchemaChanged
    /\ Len(PreviousOf(arg.cfg.json).validators) # Len(arg.cfg.json.validators)
    /\ Len(config_schema.config_hash_by_ordinal) > 1

\* The calls the transaction performed last made.
Calls == { log[i].f : i \in DOMAIN log }

\* C26: put_propose of a configuration whose hash has a stored propose, be it sent by
\* another validator, returns Ok and leaves the proposes, the ordinal list and the
\* votes, those cast included, as they were.
C26_PutProposeIdempotent ==
    (/\ op = "TxConfigPropose"
     /\ "put_propose" \in Calls
     /\ StorageValue_hash(arg.cfg.json) \in DOMAIN PreProposes) =>
        /\ ret = "Ok"
        /\ config_schema = pre.config_schema

C26_Witness ==
    /\ op = "TxConfigPropose"
    /\ "put_propose" \in Calls
    /\ StorageValue_hash(arg.cfg.json) \in DOMAIN PreProposes
    /\ PreProposes[StorageValue_hash(arg.cfg.json)].tx_propose.from # arg.from
    /\ PreProposes[StorageValue_hash(arg.cfg.json)].tx_propose.cfg # arg.cfg
    /\ \E i \in DOMAIN config_schema.votes_by_config_hash[StorageValue_hash(arg.cfg.json)] :
            config_schema.votes_by_config_hash[StorageValue_hash(arg.cfg.json)][i] # ZEROVOTE

\* The configuration of the propose a vote names, in the state before the vote.
Referenced == PreProposes[arg.cfg_hash].tx_propose.cfg.json
\* The conditions of a vote: its propose is stored, no configuration is scheduled to
\* follow, its sender is a validator of the actual configuration and the propose is
\* for a height to come.
VoteAcceptable ==
    /\ arg.cfg_hash \in DOMAIN PreProposes
    /\ pre.blockchain_schema.following = None
    /\ arg.from \in Range(PreActual.validators)
    /\ Referenced.actual_from > pre.blockchain_schema.height

\* C27: put_vote is applied to a vote transaction if and only if its propose is stored,
\* no following configuration is scheduled, its sender is a validator of the actual
\* configuration and the actual_from of the propose is above the current height.
C27_VoteAccepted ==
    op = "TxConfigVote" => ("put_vote" \in Calls <=> VoteAcceptable)

\* C27, amended: put_vote is applied if and only if, besides, the propose names the
\* actual configuration as its previous one.
C27_VoteAcceptedOfActual ==
    op = "TxConfigVote" =>
        ("put_vote" \in Calls <=>
            /\ VoteAcceptable
            /\ Referenced.previous_cfg_hash = pre.blockchain_schema.actual)

C27_Witness ==
    /\ op = "TxConfigVote"
    /\ "put_vote" \in Calls
    /\ pre.blockchain_schema.actual # StorageValue_hash(GenesisConfig)

\* The votes of a hash before and after the transaction performed last, and the
\* number of votes cast among them.
PreVotes(h) == pre.config_schema.votes_by_config_hash[h]
Votes(h) == config_schema.votes_by_config_hash[h]
CastCount(votes) == Cardinality({ i \in DOMAIN votes : votes[i] # ZEROVOTE })
\* The sender of the vote performed last has a vote in the list it found.
VotedBefore == \E i \in DOMAIN PreVotes(arg.cfg_hash) : PreVotes(arg.cfg_hash)[i].from = arg.from

\* C28: a slot that holds a vote is never changed; put_vote of a validator whose vote
\* is in the list leaves the list and the stored propose as they were; the number of
\* votes cast for a propose never decreases and never exceeds the number of distinct
\* validators put_vote was applied to.
C28_FirstVoteWins ==
    /\ \A h \in DOMAIN pre.config_schema.votes_by_config_hash :
        /\ h \in DOMAIN config_schema.votes_by_config_hash
        /\ \A i \in DOMAIN PreVotes(h) :
                PreVotes(h)[i] # ZEROVOTE => Votes(h)[i] = PreVotes(h)[i]
        /\ CastCount(Votes(h)) >= CastCount(PreVotes(h))
    /\ \A h \in DOMAIN config_schema.votes_by_config_hash :
            CastCount(Votes(h)) <= Cardinality(IF h \in DOMAIN voted THEN voted[h] ELSE {})
    /\ (op = "TxConfigVote" /\ "put_vote" \in Calls /\ VotedBefore) =>
            /\ Votes(arg.cfg_hash) = PreVotes(arg.cfg_hash)
            /\ Proposes[arg.cfg_hash] = PreProposes[arg.cfg_hash]

C28_Witness ==
    /\ op = "TxConfigVote"
    /\ "put_vote" \in Calls
    /\ VotedBefore
    /\ arg \notin Range(Votes(arg.cfg_hash))

\* C29: every stored propose has the root hash of the votes of its hash as its
\* votes_history_hash and the length of that list as its num_votes, and its num_votes
\* is the one it was stored with.
C29_HistoryHashCurrent ==
    \A h \in DOMAIN Proposes :
        /\ h \in DOMAIN config_schema.votes_by_config_hash
        /\ Proposes[h].votes_history_hash = root_hash(Votes(h))
        /\ Proposes[h].num_votes = Len(Votes(h))
        /\ h \in DOMAIN PreProposes => Proposes[h].num_votes = PreProposes[h].num_votes

C29_Witness ==
    /\ op = "TxConfigVote"
    /\ "put_vote" \in Calls
    /\ Votes(arg.cfg_hash) # PreVotes(arg.cfg_hash)
    /\ Proposes[arg.cfg_hash].votes_history_hash # root_hash(ZeroVotes(Len(Votes(arg.cfg_hash))))
    /\ CastCount(Votes(arg.cfg_hash)) > 1

\* The least k with k - 1 >= 2N/3, that is ceil(2N/3) + 1.
Threshold(N) ==
    CHOOSE k \in 1..(N + 2) : 3 * (k - 1) >= 2 * N /\ 3 * (k - 2) < 2 * N

ConfigTransactions == {"TxConfigPropose", "TxConfigVote"}

\* C31: while a following configuration is scheduled, a propose or a vote returns Ok,
\* makes no call, and leaves the configuration schema and the blockchain schema as
\* they were; a configuration is committed only when none is scheduled, and the
\* scheduled one stays until it becomes the actual one, so an actual configuration
\* gets at most one following configuration.
C31_DiscardedOnceScheduled ==
    /\ (op \in ConfigTransactions /\ pre.blockchain_schema.following # None) =>
            /\ ret = "Ok"
            /\ Calls = {}
            /\ config_schema = pre.config_schema
            /\ blockchain_schema = pre.blockchain_schema
    /\ "commit_configuration" \in Calls => pre.blockchain_schema.following = None
    /\ pre.blockchain_schema.following # None =>
            \/ /\ blockchain_schema.following = pre.blockchain_schema.following
               /\ blockchain_schema.actual = pre.blockchain_schema.actual
            \/ /\ blockchain_schema.following = None
               /\ blockchain_schema.actual = pre.blockchain_schema.following

C31_Witness ==
    /\ op = "TxConfigVote"
    /\ pre.blockchain_schema.following # None
    /\ arg.cfg_hash \in DOMAIN PreProposes
    /\ arg.cfg_hash # pre.blockchain_schema.following
    /\ arg.from \in Range(PreActual.validators)
    /\ Referenced.previous_cfg_hash = pre.blockchain_schema.actual
    /\ Referenced.actual_from > pre.blockchain_schema.height
    /\ PreVotes(arg.cfg_hash)[1] = ZEROVOTE

\* Number of validators that precede the sender of the vote performed last in the
\* configuration its propose names as the previous one.
ValidatorIndex ==
    LET validators == PreviousOf(Referenced).validators
    IN  Cardinality({ i \in DOMAIN validators :
                        \E j \in DOMAIN validators : j > i /\ validators[j] = arg.from })

\* C32: for every vote put_vote is applied to, the sender is a validator of the
\* configuration the propose names as the previous one, its index there is at least 0
\* and less than num_votes of the propose, put_vote does not fail, and the slot of that
\* index holds a vote of the sender afterwards.
C32_ValidatorIndexInRange ==
    (op = "TxConfigVote" /\ "put_vote" \in Calls) =>
        /\ ret = "Ok"
        /\ arg.from \in Range(PreviousOf(Referenced).validators)
        /\ 0 <= ValidatorIndex
        /\ ValidatorIndex < PreProposes[arg.cfg_hash].num_votes
        /\ ValidatorIndex < Len(PreVotes(arg.cfg_hash))
        /\ Votes(arg.cfg_hash)[ValidatorIndex + 1].from = arg.from
        /\ \A i \in DOMAIN Votes(arg.cfg_hash) :
                i # ValidatorIndex + 1 => Votes(arg.cfg_hash)[i] = PreVotes(arg.cfg_hash)[i]

C32_Witness ==
    /\ op = "TxConfigVote"
    /\ "put_vote" \in Calls
    /\ ValidatorIndex = PreProposes[arg.cfg_hash].num_votes - 1
    /\ Votes(arg.cfg_hash) # PreVotes(arg.cfg_hash)
    /\ pre.blockchain_schema.actual # StorageValue_hash(GenesisConfig)

\* config_hash_by_ordinal before and after the transaction performed last.
PreOrdinal == pre.config_schema.config_hash_by_ordinal
Ordinal == config_schema.config_hash_by_ordinal

\* C40: config_hash_by_ordinal holds no hash twice, its elements are the keys of
\* propose_data_by_config_hash, and it grows only at its end, by the hash of the propose
\* that was accepted; a propose or a vote that is discarded adds nothing to either.
C40_OrdinalMatchesProposes ==
    /\ \A i, j \in DOMAIN Ordinal : i # j => Ordinal[i] # Ordinal[j]
    /\ Range(Ordinal) = DOMAIN Proposes
    /\ IF op = "TxConfigPropose" /\ ProposeAcceptable
       THEN /\ Ordinal = Append(PreOrdinal, StorageValue_hash(arg.cfg.json))
            /\ DOMAIN Proposes = DOMAIN PreProposes \cup {StorageValue_hash(arg.cfg.json)}
       ELSE /\ Ordinal = PreOrdinal
            /\ DOMAIN Proposes = DOMAIN PreProposes

C40_Witness ==
    /\ op = "TxConfigPropose"
    /\ ~try_deserialize(arg.cfg).is_err
    /\ StorageValue_hash(arg.cfg.json) \in DOMAIN PreProposes
    /\ "put_propose" \in Calls
    /\ Len(Ordinal) = 3
    /\ Ordinal[1] = StorageValue_hash(CandidateB)

\* The transactions of the block created last that are addressed to an instance in the
\* lookup table, and those among them whose method the runtime of the instance answers
\* with Ok.
Routed(tx) == tx.call_info.instance_id \in DOMAIN pre.runtime_lookup
ReturnsOk(tx) ==
    /\ Routed(tx)
    /\ tx.call_info.instance_id = SampleInstance(pre.runtime_lookup[tx.call_info.instance_id])
    /\ tx.call_info.method_id = SampleMethod(pre.runtime_lookup[tx.call_info.instance_id])

DispatcherUnchanged ==
    /\ runtime_lookup = pre.runtime_lookup
    /\ modified = pre.modified
    /\ deployed = pre.deployed

\* C34: Dispatcher::call leaves runtime_lookup, the modified flag and the runtimes as
\* they were, whatever it returns; and a transaction changes them only through its
\* deferred actions, which run after the call returned: an execute that ran no action
\* leaves them unchanged, and in an execute every action comes after the call.
C34_CallLeavesDispatcher ==
    /\ op = "call" => DispatcherUnchanged /\ fork = pre.fork
    /\ op = "execute" =>
        /\ Positions("action") = {} => DispatcherUnchanged
        /\ \A p \in Positions("execute"), q \in Positions("action") : p < q
        /\ ~DispatcherUnchanged => arg.actions # <<>> /\ Positions("execute") # {}

C34_Witness ==
    /\ op = "call"
    /\ ret = "Ok"
    /\ modified
    /\ Cardinality(DOMAIN runtime_lookup) = 2

\* The result of the deployment deploy_and_register_artifact waits for.
Deployment ==
    IF arg.artifact.runtime_id \notin Runtimes THEN "IncorrectRuntime" ELSE arg.res

\* C35: deploy_and_register_artifact returns the error of a failed deployment, that of
\* an artifact no runtime hosts included, and leaves the persistent artifacts as they
\* were; after a successful deployment it returns Ok and artifacts[artifact] is the
\* given spec, every other record being as before.
C35_RegisteredOnlyIfDeployed ==
    op = "deploy_and_register_artifact" =>
        IF Deployment # "Ok"
        THEN /\ ret = Deployment
             /\ fork = pre.fork
        ELSE /\ ret = "Ok"
             /\ ~halted
             /\ arg.artifact \in deployed
             /\ fork = [pre.fork EXCEPT !.artifacts = Put(@, arg.artifact, arg.spec)]
             /\ fork.artifacts[arg.artifact] = arg.spec

C35_Witness ==
    /\ op = "deploy_and_register_artifact"
    /\ ret = "UnableToDeploy"
    /\ arg.artifact \notin DOMAIN fork.artifacts
    /\ fork.artifacts # EmptyMap

\* One step of the dispatcher, seen from the modified flag.
ModifiedStep ==
    /\ op' = "take_modified_state" =>
        /\ ret' = "true" <=> modified
        /\ ~modified'
        /\ op = "take_modified_state" => ret' = "false"
    /\ (~modified /\ modified') =>
        op' = "execute" /\ arg'.actions # <<>> /\ ret' = "Ok"
    /\ (op' = "execute" /\ arg'.actions # <<>> /\ ret' = "Ok") => modified'
    /\ (modified /\ ~modified') => op' \in {"take_modified_state", "restore_state"}
    /\ op' = "restore_state" => ~modified'

\* C36: take_modified_state returns the flag and clears it.  The flag is clear in a
\* new dispatcher, is set by nothing but an execute that took a non-empty list of
\* actions and marked the dispatcher, and is cleared by nothing but take_modified_state
\* and the construction of a new dispatcher; so it returns true exactly when such an
\* execute marked the dispatcher since the previous take_modified_state, and a
\* take_modified_state that directly follows another returns false.
C36_ReadAndReset == ~modified /\ [][ModifiedStep]_vars

C36_Witness ==
    /\ op = "take_modified_state"
    /\ ret = "true"
    /\ pre.modified
    /\ ~modified

\* The persisted artifacts and instance names in the order restore_state visits them.
RestoredArtifacts == SelectSeq(ArtifactOrder, LAMBDA a : a \in DOMAIN pre.fork.artifacts)
RestoredNames == SelectSeq(NameOrder, LAMBDA n : n \in DOMAIN pre.fork.service_instances)
\* The calls of restore_state to the runtimes that returned an error.
FailedRestores ==
    { p \in DOMAIN log :
        \/ log[p].f = "deploy_artifact" /\ Artifact(log[p].rt, log[p].name) = arg.failDeploy
        \/ /\ log[p].f = "start_service"
           /\ \/ log[p].name = arg.failStart
              \/ pre.fork.service_instances[log[p].name].artifact \notin deployed }

\* C37: restore_state calls deploy_artifact for the persisted artifacts in their order
\* and, only when all of them are deployed, start_service for the persisted instances
\* in their order; the call that fails is the last one it makes and its error is
\* returned; it makes no other call to a runtime, configure_service least of all; and
\* artifacts, service_instances and next_instance_id are what they were.
C37_RestoreReplaysOnly ==
    op = "restore_state" =>
        LET deploys == SelectSeq(log, LAMBDA e : e.f = "deploy_artifact")
            starts == SelectSeq(log, LAMBDA e : e.f = "start_service")
        IN  /\ log = deploys \o starts
            /\ Len(deploys) <= Len(RestoredArtifacts)
            /\ \A i \in DOMAIN deploys : deploys[i].name = RestoredArtifacts[i].name
            /\ Len(starts) <= Len(RestoredNames)
            /\ \A i \in DOMAIN starts : starts[i].name = RestoredNames[i]
            /\ starts # <<>> => Len(deploys) = Len(RestoredArtifacts)
            /\ FailedRestores \subseteq {Len(log)}
            /\ FailedRestores # {} => ret # "Ok"
            /\ ret = "Ok" =>
                Len(deploys) = Len(RestoredArtifacts) /\ Len(starts) = Len(RestoredNames)
            /\ Positions("configure_service") = {}
            /\ Positions("stop_service") = {}
            /\ fork = pre.fork

C37_Witness ==
    /\ op = "restore_state"
    /\ ret # "Ok"
    /\ Len(RestoredArtifacts) = 2
    /\ Len(RestoredNames) = 2
    /\ Positions("start_service") = {3}

\* The runtime was asked to start the instance of the operation and returned an error.
RuntimeStartFailed ==
    /\ op \in {"start_service", "add_builtin_service"}
    /\ Positions("start_service") # {}
    /\ arg.spec.artifact \notin deployed \/ arg.o.start # "Ok"

\* C38: when the runtime's start_service returns an error, start_service returns that
\* error, having called neither configure_service nor stop_service, and leaves
\* runtime_lookup and the persistent service_instances and next_instance_id as they
\* were.
C38_StartErrorReturned ==
    RuntimeStartFailed =>
        /\ ret = IF arg.spec.artifact \notin deployed THEN "ArtifactNotDeployed"
                 ELSE "RuntimeError"
        /\ ~halted
        /\ Positions("configure_service") = {}
        /\ Positions("stop_service") = {}
        /\ log[Len(log)].f = "start_service"
        /\ runtime_lookup = pre.runtime_lookup
        /\ fork.service_instances = pre.fork.service_instances
        /\ fork.next_instance_id = pre.fork.next_instance_id

C38_Witness ==
    /\ RuntimeStartFailed
    /\ op = "start_service"
    /\ ret = "RuntimeError"
    /\ arg.spec.artifact \in DOMAIN fork.artifacts
    /\ runtime_lookup # EmptyMap

\* The balance operation performed last, the key of its argument and the balance the
\* claim expects from a balance b.
BalanceChanged == op \in {"increase_wallet_balance", "decrease_wallet_balance"}
ArgumentKey == arg.wallet.pub_key
Expected(b) == IF op = "increase_wallet_balance" THEN b + arg.amount ELSE b - arg.amount
\* Every wallet and history of another key is what it was.
OtherKeysUnchanged ==
    \A key \in PublicKeys \ {ArgumentKey} :
        /\ key \in DOMAIN wallets <=> key \in DOMAIN pre.wallets
        /\ key \in DOMAIN wallets => wallets[key] = pre.wallets[key]
        /\ wallet_history_get(WalletSchema, key) = wallet_history_get(pre, key)

\* C39: after increase_wallet_balance (decrease_wallet_balance) the stored balance of
\* the argument's key is the argument's balance plus (minus) the amount, which is the
\* stored balance before plus (minus) the amount only if the argument's balance is the
\* stored one; and the wallets and histories of all other keys are unchanged.
C39_BalanceFromArgument ==
    BalanceChanged =>
        /\ ArgumentKey \in DOMAIN wallets
        /\ wallets[ArgumentKey].balance = Expected(arg.wallet.balance)
        /\ ArgumentKey \in DOMAIN pre.wallets =>
            (wallets[ArgumentKey].balance = Expected(pre.wallets[ArgumentKey].balance)
                <=> arg.wallet.balance = pre.wallets[ArgumentKey].balance)
        /\ OtherKeysUnchanged

\* The part of C39 that holds: an operation whose result the balance can hold.
C39_BalanceFromArgumentWithinRange ==
    (BalanceChanged /\ ~OutOfRange) =>
        /\ ret = "Ok"
        /\ wallets[ArgumentKey].balance = Expected(arg.wallet.balance)
        /\ wallet_history[ArgumentKey]
                = Append(wallet_history_get(pre, ArgumentKey), arg.transaction)
        /\ ArgumentKey \in DOMAIN pre.wallets =>
            (wallets[ArgumentKey].balance = Expected(pre.wallets[ArgumentKey].balance)
                <=> arg.wallet.balance = pre.wallets[ArgumentKey].balance)
        /\ OtherKeysUnchanged

\* An operation given a wallet whose balance is not the stored one.
C39_StaleArgument ==
    /\ BalanceChanged
    /\ ~OutOfRange
    /\ ArgumentKey \in DOMAIN pre.wallets
    /\ arg.wallet.balance # pre.wallets[ArgumentKey].balance
    /\ PublicKeys \subseteq DOMAIN wallets

====
